---------------------------- MODULE Spec2Model ----------------------------
(***************************************************************************)
(* Solution-space graph and hint path finder of codetracker-data.          *)
(*                                                                         *)
(* Trees are modelled by identity: an anonymized tree is one of the six    *)
(* fragments of graph_vertices_dist_tests.py or the tree of the empty      *)
(* source; are_asts_equal is equality of identities.  Rates are held in    *)
(* hundredths (100 is TEST_RESULT.FULL_SOLUTION).                          *)
(***************************************************************************)
EXTENDS Integers, Sequences, FiniteSets, TLC

(* ------------------------------ bounds --------------------------------- *)

\* Code states (chain elements, single insertions, hint requests) one run feeds the graph.
MaxElems == 3

\* Longest raw chain given to loop removal.
MaxChainLen == 5

\* Largest edit distance drawn for a routing decision.
MaxDist == 6

(* --------------------------- program constants ------------------------- *)

\* DIFFS_PERCENT_TO_GO_DIRECTLY = 0.2, held as the fraction 1 / DIFFS_PERCENT_DEN.
\* Python evaluates d <= n * 0.2 in doubles; 0.2 is stored slightly above 1/5 and
\* n * 0.2 never rounds below n / 5, so for integers the test is 5 * d <= n.
DIFFS_PERCENT_DEN == 5

DISTANCE_TO_GRAPH_THRESHOLD == 2

\* TEST_RESULT.FULL_SOLUTION (1) and TEST_RESULT.CORRECT_CODE (0), in hundredths.
FULL_SOLUTION == 100

CORRECT_CODE == 0

(* ------------------------------- trees --------------------------------- *)

\* all_fragments of the distance test: fragment_0 .. fragment_5.
Fragments == 0..5

\* The anonymized tree of the empty source, Code.from_source('', ...).
EMPTY_TREE == 6

AnonTrees == Fragments \cup {EMPTY_TREE}

\* get_trees: the canonical tree of an anonymized tree.  INDICES_BY_VERTEX puts
\* fragments 0,1,2 in one canonical class, 3,4 in a second, 5 in a third; the
\* empty source is a class of its own.
CanonOf(a) ==
    CASE a \in {0, 1, 2} -> 0
      [] a \in {3, 4}    -> 1
      [] a = 5           -> 2
      [] OTHER           -> 3

CanonTrees == {CanonOf(a) : a \in AnonTrees}

are_asts_equal(t1, t2) == t1 = t2

\* AstStructure.get_nodes_number_in_ast: a function of the tree; distinct trees
\* may have the same number of nodes.
NodesNumber(a) ==
    CASE a \in {0, 1} -> 11
      [] a = 2        -> 15
      [] a = 3        -> 17
      [] a = 4        -> 25
      [] a = 5        -> 11
      [] OTHER        -> 1

(* --------------------------- edit distances ---------------------------- *)

\* The edit-distance tool is an external collaborator: the graph must work with
\* whatever it answers.  Tool 1 answers anon_distance / canon_distance of the
\* distance test.  Tool 2 differs in one pair of anonymized trees (fragments 1
\* and 3), which it puts closer together than their canonical trees.
Tools == {1, 2}

\* A tool whose answer depends on the direction: from a tree to a tree with a
\* lower number it answers twice what tool 1 answers.
ASYMMETRIC_TOOL == 3

anon_distance ==
    << << 0,  8, 12, 20, 33, 21>>,
       << 8,  0, 16, 20, 30, 21>>,
       <<12, 16,  0, 28, 38, 27>>,
       <<20, 20, 28,  0, 11, 16>>,
       <<33, 33, 38, 11,  0, 24>>,
       <<24, 21, 27, 16, 24,  0>> >>

canon_distance ==
    << << 0, 18, 19>>,
       <<18,  0, 16>>,
       <<19, 16,  0>> >>

\* Distance between the empty tree and a tree: the size of the other tree.
EmptyAnonDist(a) == IF a = EMPTY_TREE THEN 0 ELSE NodesNumber(a)

EmptyCanonDist(c) ==
    CASE c = 0 -> 11
      [] c = 1 -> 17
      [] c = 2 -> 11
      [] OTHER -> 0

AnonDist(t, a, b) ==
    IF a = EMPTY_TREE THEN EmptyAnonDist(b)
    ELSE IF b = EMPTY_TREE THEN EmptyAnonDist(a)
    ELSE IF t = 2 /\ {a, b} = {1, 3} THEN 10
    ELSE IF t = ASYMMETRIC_TOOL /\ a > b THEN 2 * anon_distance[a + 1][b + 1]
    ELSE anon_distance[a + 1][b + 1]

CanonDist(t, c, d) ==
    IF c = 3 THEN EmptyCanonDist(d)
    ELSE IF d = 3 THEN EmptyCanonDist(c)
    ELSE IF t = ASYMMETRIC_TOOL /\ c > d THEN 2 * canon_distance[c + 1][d + 1]
    ELSE canon_distance[c + 1][d + 1]

Min(S) == CHOOSE x \in S : \A y \in S : x <= y


(* ------------------------------- state --------------------------------- *)

VARIABLES
    vertices,   \* the graph's vertices in creation order; a vertex's id is its index
    dist,       \* the vertex distance matrix, one row per non-sentinel vertex
    tool,       \* which edit-distance tool this run talks to
    used,       \* code states fed so far; the next CodeInfo's identity
    ret,        \* outcome of the last operation
    lr,         \* loop removal: the chain given and the chains returned
    rt,         \* routing decision: the distances given and the decision taken
    mt,         \* ranking: the learner's tree, the measured candidates, the choice
    req,        \* find_or_create_vertex requests in flight, one per thread
    at,         \* medians: an anonymized tree, its users and its two medians
    df          \* splitting: the data frame given and the start indices found

vars == <<vertices, dist, tool, used, ret, lr, rt, mt, req, at, df>>

\* Ids of the two sentinels, created with the graph.
START == 1

END == 2

NoVertex == 0

NoTree == -1

NoRate == -1

Sentinel(type) ==
    [type |-> type, canon |-> NoTree, rate |-> NoRate, anon_trees |-> <<>>, children |-> <<>>]

InRange(seq, x) == \E i \in 1..Len(seq) : seq[i] = x

SeqToSet(seq) == {seq[i] : i \in 1..Len(seq)}

IsSentinel(id) == id \in {START, END}

VertexIds(vs) == 1..Len(vs)

InnerIds(vs) == {id \in VertexIds(vs) : ~IsSentinel(id)}

(* --------------------------- SerializedCode ---------------------------- *)

\* AnonTree.__init__: a variant with its first CodeInfo.
AnonTree(tree, rate, code_info) ==
    [tree |-> tree, rate |-> rate, nodes_number |-> NodesNumber(tree),
     code_info_list |-> <<code_info>>]

\* is_full comparing with the rate of a correct code, not of a full solution.
is_full_correct_code(v) == v.rate = CORRECT_CODE

\* is_full taking every code that passes some test for a full solution.
is_full_partial(v) == v.rate > 0

\* SerializedCode.is_full
is_full(v) == v.rate = FULL_SOLUTION

\* find_anon_tree that looks at the first variant only.
find_anon_tree_first_only(anon_trees, tree) ==
    IF /\ Len(anon_trees) >= 1
       /\ NodesNumber(tree) = anon_trees[1].nodes_number
       /\ are_asts_equal(anon_trees[1].tree, tree)
    THEN 1 ELSE 0

\* SerializedCode.find_anon_tree: index of the first variant with the same number
\* of nodes and an AST-equal tree, 0 for None.
find_anon_tree(anon_trees, tree) ==
    LET hits == {i \in 1..Len(anon_trees) :
                    /\ NodesNumber(tree) = anon_trees[i].nodes_number
                    /\ are_asts_equal(anon_trees[i].tree, tree)}
    IN IF hits = {} THEN 0 ELSE Min(hits)

\* add_anon_tree without the comparison of the rates.
add_anon_tree_unchecked_rate(v, tree, rate, code_info) ==
    LET found == find_anon_tree(v.anon_trees, tree) IN
    IF found # 0
    THEN [anon_trees |-> [v.anon_trees EXCEPT ![found].code_info_list = Append(@, code_info)],
          added |-> FALSE, error |-> ""]
    ELSE [anon_trees |-> Append(v.anon_trees, AnonTree(tree, rate, code_info)),
          added |-> TRUE, error |-> ""]

\* add_anon_tree that finds the AST-equal variant and returns without giving
\* it the CodeInfo.
add_anon_tree_drops_code_info(v, tree, rate, code_info) ==
    LET found == find_anon_tree(v.anon_trees, tree) IN
    IF rate # v.rate
    THEN [anon_trees |-> v.anon_trees, added |-> FALSE, error |-> "DifferentRates"]
    ELSE IF found # 0
    THEN [anon_trees |-> v.anon_trees, added |-> FALSE, error |-> ""]
    ELSE [anon_trees |-> Append(v.anon_trees, AnonTree(tree, rate, code_info)),
          added |-> TRUE, error |-> ""]

\* SerializedCode.add_anon_tree: [anon_trees, added, error].  A rate other than
\* the established one raises before anything changes; an AST-equal variant
\* takes the CodeInfo; otherwise a new variant is appended.
add_anon_tree(v, tree, rate, code_info) ==
    LET found == find_anon_tree(v.anon_trees, tree) IN
    IF rate # v.rate
    THEN [anon_trees |-> v.anon_trees, added |-> FALSE, error |-> "DifferentRates"]
    ELSE IF found # 0
    THEN [anon_trees |-> [v.anon_trees EXCEPT ![found].code_info_list = Append(@, code_info)],
          added |-> FALSE, error |-> ""]
    ELSE [anon_trees |-> Append(v.anon_trees, AnonTree(tree, rate, code_info)),
          added |-> TRUE, error |-> ""]

\* Vertex.code_info_list: the CodeInfos of all variants.
code_info_list(v) ==
    UNION {SeqToSet(v.anon_trees[i].code_info_list) : i \in 1..Len(v.anon_trees)}

VariantTrees(v) == {v.anon_trees[i].tree : i \in 1..Len(v.anon_trees)}

(* ------------------------ vertex distance matrix ----------------------- *)

\* Distance from a set of variants to a set of variants.
AnonSetDist(t, srcs, dsts) == Min({AnonDist(t, a, b) : a \in srcs, b \in dsts})

\* Distance between two vertices: the smaller of the canonical distance and the
\* closest pair of variants.
VertexDist(t, src, dst) ==
    Min({CanonDist(t, src.canon, dst.canon),
         AnonSetDist(t, VariantTrees(src), VariantTrees(dst))})

\* add_dist: a new vertex appends one row and one column; old cells are kept.
add_dist(t, d, vs, new) ==
    LET n == Len(d)
        inner(i) == vs[i + 2]
        grown == [i \in 1..n |-> Append(d[i], VertexDist(t, inner(i), new))]
        row == [j \in 1..(n + 1) |->
                   IF j = n + 1 THEN VertexDist(t, new, new)
                   ELSE VertexDist(t, new, inner(j))]
    IN Append(grown, row)

\* update_dist writing the new variant's distances over the cells of its row
\* and column.
update_dist_overwrite(t, d, vs, id, tree) ==
    LET k == id - 2
        inner(i) == vs[i + 2]
    IN [i \in 1..Len(d) |-> [j \in 1..Len(d) |->
           IF i = k /\ j = k THEN d[i][j]
           ELSE IF i = k THEN AnonSetDist(t, {tree}, VariantTrees(inner(j)))
           ELSE IF j = k THEN AnonSetDist(t, VariantTrees(inner(i)), {tree})
           ELSE d[i][j]]]

\* update_dist: a new variant of vertex id lowers the cells of its row and
\* column that the new tree brings closer; nothing else is touched.
update_dist(t, d, vs, id, tree) ==
    LET k == id - 2
        inner(i) == vs[i + 2]
    IN [i \in 1..Len(d) |-> [j \in 1..Len(d) |->
           IF i = k /\ j = k THEN d[i][j]
           ELSE IF i = k
           THEN Min({d[i][j], AnonSetDist(t, {tree}, VariantTrees(inner(j)))})
           ELSE IF j = k
           THEN Min({d[i][j], AnonSetDist(t, VariantTrees(inner(i)), {tree})})
           ELSE d[i][j]]]

\* get_dist_between_vertices: a cell of the matrix.
get_dist_between_vertices(d, src, dst) == d[src - 2][dst - 2]

(* ---------------------------- SolutionGraph ---------------------------- *)

\* A graph value: the vertices and the distance matrix.
Graph(vs, d) == [vertices |-> vs, dist |-> d]

\* Vertex.parents, in id order.
Parents(vs, id) == {p \in VertexIds(vs) : InRange(vs[p].children, id)}

\* add_child without the check for the vertex itself.
add_child_to_itself(vs, parent, child) ==
    IF InRange(vs[parent].children, child)
    THEN vs
    ELSE [vs EXCEPT ![parent].children = Append(@, child)]

\* Vertex.add_child: children are a set kept in insertion order; a vertex is
\* never its own child.
add_child(vs, parent, child) ==
    IF parent = child \/ InRange(vs[parent].children, child)
    THEN vs
    ELSE [vs EXCEPT ![parent].children = Append(@, child)]

connect_to_start_vertex(vs, id) == add_child(vs, START, id)

connect_to_end_vertex(vs, id) == add_child(vs, id, END)

\* find_vertex: the first vertex whose canonical tree is AST-equal, 0 for None.
find_vertex(vs, canon) ==
    LET hits == {id \in InnerIds(vs) : are_asts_equal(vs[id].canon, canon)}
    IN IF hits = {} THEN NoVertex ELSE Min(hits)

\* Vertex.__init__ with a code and a CodeInfo.
Vertex(code, code_info) ==
    [type |-> "intermediate", canon |-> CanonOf(code.anon), rate |-> code.rate,
     anon_trees |-> <<AnonTree(code.anon, code.rate, code_info)>>, children |-> <<>>]

\* create_vertex that makes every new vertex a child of the start vertex.
create_vertex_connected_to_start(t, g, code, code_info) ==
    LET new == Vertex(code, code_info)
        id == Len(g.vertices) + 1
        appended == connect_to_start_vertex(Append(g.vertices, new), id)
        wired == IF is_full(new) THEN connect_to_end_vertex(appended, id) ELSE appended
    IN [g |-> Graph(wired, add_dist(t, g.dist, g.vertices, new)), vertex |-> id, error |-> ""]

\* create_vertex: the new vertex takes the next id, a full solution is
\* connected to the end vertex, and the matrix gets its row and column.
create_vertex(t, g, code, code_info) ==
    LET new == Vertex(code, code_info)
        id == Len(g.vertices) + 1
        appended == Append(g.vertices, new)
        wired == IF is_full(new) THEN connect_to_end_vertex(appended, id) ELSE appended
    IN [g |-> Graph(wired, add_dist(t, g.dist, g.vertices, new)), vertex |-> id, error |-> ""]

\* code = None
NoCode == [anon |-> NoTree, rate |-> NoRate]

\* find_or_create_vertex that takes an absent code for the empty code.
find_or_create_vertex_none_as_empty(t, g, code, code_info) ==
    LET given == IF code = NoCode THEN [anon |-> EMPTY_TREE, rate |-> CORRECT_CODE] ELSE code
        id == find_vertex(g.vertices, CanonOf(given.anon))
    IN IF id = NoVertex THEN create_vertex(t, g, given, code_info)
       ELSE LET r == add_anon_tree(g.vertices[id], given.anon, given.rate, code_info)
                merged == [g.vertices EXCEPT ![id].anon_trees = r.anon_trees]
            IN IF r.error # "" THEN [g |-> g, vertex |-> NoVertex, error |-> r.error]
               ELSE [g |-> Graph(merged,
                                 IF r.added
                                 THEN update_dist(t, g.dist, g.vertices, id, given.anon)
                                 ELSE g.dist),
                     vertex |-> id, error |-> ""]

\* find_or_create_vertex that merges a new variant and leaves the distance
\* matrix as it was.
find_or_create_vertex_stale_dist(t, g, code, code_info) ==
    LET id == find_vertex(g.vertices, CanonOf(code.anon)) IN
    IF code = NoCode THEN [g |-> g, vertex |-> NoVertex, error |-> "ValueError"]
    ELSE IF id = NoVertex THEN create_vertex(t, g, code, code_info)
    ELSE LET r == add_anon_tree(g.vertices[id], code.anon, code.rate, code_info)
             merged == [g.vertices EXCEPT ![id].anon_trees = r.anon_trees]
         IN IF r.error # "" THEN [g |-> g, vertex |-> NoVertex, error |-> r.error]
            ELSE [g |-> Graph(merged, g.dist), vertex |-> id, error |-> ""]

\* find_or_create_vertex: [g, vertex, error].  An absent code raises
\* ValueError before the graph is looked at; a hit merges the code into the
\* vertex found (add_anon_tree, and update_dist for a new variant); a miss
\* creates a vertex.
find_or_create_vertex(t, g, code, code_info) ==
    LET id == find_vertex(g.vertices, CanonOf(code.anon)) IN
    IF code = NoCode THEN [g |-> g, vertex |-> NoVertex, error |-> "ValueError"]
    ELSE IF id = NoVertex THEN create_vertex(t, g, code, code_info)
    ELSE LET r == add_anon_tree(g.vertices[id], code.anon, code.rate, code_info)
             merged == [g.vertices EXCEPT ![id].anon_trees = r.anon_trees]
         IN IF r.error # "" THEN [g |-> g, vertex |-> NoVertex, error |-> r.error]
            ELSE [g |-> Graph(merged,
                              IF r.added
                              THEN update_dist(t, g.dist, g.vertices, id, code.anon)
                              ELSE g.dist),
                  vertex |-> id, error |-> ""]

\* The loop of add_code_info_chain connecting every vertex of the chain, not
\* only the first, to the start vertex.
RECURSIVE LinkChain_all_to_start(_, _, _, _, _, _)
LinkChain_all_to_start(t, g, chain, i, prev, visited) ==
    IF i > Len(chain) THEN [g |-> g, visited |-> visited, error |-> ""]
    ELSE LET r == find_or_create_vertex(t, g, chain[i].code, chain[i].code_info) IN
         IF r.error # "" THEN [g |-> r.g, visited |-> visited, error |-> r.error]
         ELSE LinkChain_all_to_start(
                  t, Graph(connect_to_start_vertex(add_child(r.g.vertices, prev, r.vertex),
                                                   r.vertex), r.g.dist),
                  chain, i + 1, r.vertex, Append(visited, r.vertex))

\* The loop of add_code_info_chain over chain[i..]: each vertex found or
\* created becomes a child of the previous one.  An error stops the loop and
\* leaves what was done before it.
RECURSIVE LinkChain(_, _, _, _, _, _)
LinkChain(t, g, chain, i, prev, visited) ==
    IF i > Len(chain) THEN [g |-> g, visited |-> visited, error |-> ""]
    ELSE LET r == find_or_create_vertex(t, g, chain[i].code, chain[i].code_info) IN
         IF r.error # "" THEN [g |-> r.g, visited |-> visited, error |-> r.error]
         ELSE LinkChain(t, Graph(add_child(r.g.vertices, prev, r.vertex), r.g.dist),
                        chain, i + 1, r.vertex, Append(visited, r.vertex))

\* add_code_info_chain: [g, visited, error].  The first vertex is connected to
\* the start vertex; an empty chain changes nothing.
add_code_info_chain(t, g, chain) ==
    IF Len(chain) = 0 THEN [g |-> g, visited |-> <<>>, error |-> ""]
    ELSE LinkChain(t, g, chain, 1, START, <<>>)

\* get_traversal: breadth-first from the start vertex, the end vertex left
\* out, each vertex once, children in the order they were added.
RECURSIVE Discover(_, _, _, _)
Discover(children, i, visited, queue) ==
    IF i > Len(children) THEN [visited |-> visited, queue |-> queue]
    ELSE IF children[i] = END \/ InRange(visited, children[i])
    THEN Discover(children, i + 1, visited, queue)
    ELSE Discover(children, i + 1, Append(visited, children[i]), Append(queue, children[i]))

\* The traversal going down into the children of a vertex before its siblings.
RECURSIVE Bfs_depth_first(_, _, _)
Bfs_depth_first(vs, visited, queue) ==
    IF queue = <<>> THEN visited
    ELSE LET r == Discover(vs[Head(queue)].children, 1, visited, <<>>)
         IN Bfs_depth_first(vs, r.visited, r.queue \o Tail(queue))

RECURSIVE Bfs(_, _, _)
Bfs(vs, visited, queue) ==
    IF queue = <<>> THEN visited
    ELSE LET r == Discover(vs[Head(queue)].children, 1, visited, Tail(queue))
         IN Bfs(vs, r.visited, r.queue)

get_traversal(vs) == Bfs(vs, <<START>>, <<START>>)

(* ---------------------------- loop removal ----------------------------- *)

\* A chain element: a Code (its anonymized tree and its rate; the canonical tree
\* is CanonOf of the anonymized one) and a CodeInfo.
Code(anon, rate) == [anon |-> anon, rate |-> rate]

CodeInfo(id, user) == [id |-> id, user |-> user]

Element(code, code_info) == [code |-> code, code_info |-> code_info]

Max(S) == CHOOSE x \in S : \A y \in S : x >= y

\* del code_info_chain[from:to] with 1-based from and exclusive to.
DelSlice(chain, from, to) ==
    [k \in 1..(Len(chain) - (to - from)) |-> IF k < from THEN chain[k] ELSE chain[k + (to - from)]]

\* __remove_loops cutting at the first later occurrence instead of the last.
RECURSIVE RemoveLoopsFrom_first(_, _)
RemoveLoopsFrom_first(chain, i) ==
    IF i > Len(chain) THEN chain
    ELSE LET same_tree_indexes ==
                 {j \in (i + 1)..Len(chain) :
                      are_asts_equal(chain[i].code.anon, chain[j].code.anon)}
         IN IF same_tree_indexes # {}
            THEN RemoveLoopsFrom_first(DelSlice(chain, i, Min(same_tree_indexes)), i + 1)
            ELSE RemoveLoopsFrom_first(chain, i + 1)

\* __remove_loops deleting the last occurrence too (del chain[i:max + 1]).
RECURSIVE RemoveLoopsFrom_inclusive(_, _)
RemoveLoopsFrom_inclusive(chain, i) ==
    IF i > Len(chain) THEN chain
    ELSE LET same_tree_indexes ==
                 {j \in (i + 1)..Len(chain) :
                      are_asts_equal(chain[i].code.anon, chain[j].code.anon)}
         IN IF same_tree_indexes # {}
            THEN RemoveLoopsFrom_inclusive(DelSlice(chain, i, Max(same_tree_indexes) + 1), i + 1)
            ELSE RemoveLoopsFrom_inclusive(chain, i + 1)

\* The while loop of __remove_loops from position i on: the positions after i
\* that hold a tree AST-equal to the anonymized tree at i are collected, and
\* everything from i up to the last of them (that one kept) is deleted.
RECURSIVE RemoveLoopsFrom(_, _)
RemoveLoopsFrom(chain, i) ==
    IF i > Len(chain) THEN chain
    ELSE LET same_tree_indexes ==
                 {j \in (i + 1)..Len(chain) :
                      are_asts_equal(chain[i].code.anon, chain[j].code.anon)}
         IN IF same_tree_indexes # {}
            THEN RemoveLoopsFrom(DelSlice(chain, i, Max(same_tree_indexes)), i + 1)
            ELSE RemoveLoopsFrom(chain, i + 1)

\* __remove_loops: the empty code with a CodeInfo of the chain's user is put in
\* front, then the loops are removed.
remove_loops(chain, empty_code_info) ==
    RemoveLoopsFrom(<<Element(Code(EMPTY_TREE, CORRECT_CODE), empty_code_info)>> \o chain, 1)

(* ----------------------------- path finder ----------------------------- *)

\* __is_most_of_path_is_done: diffs_from_user_to_goal <= diffs_from_empty_to_goal * 0.2
is_most_of_path_is_done(diffs_from_empty_to_goal, diffs_from_user_to_goal) ==
    DIFFS_PERCENT_DEN * diffs_from_user_to_goal <= diffs_from_empty_to_goal

\* __is_far_from_graph: diffs_from_user_to_graph_vertex / diffs_from_user_to_goal > 2,
\* for a divisor that is not 0.
is_far_from_graph(diffs_from_user_to_goal, diffs_from_user_to_graph_vertex) ==
    diffs_from_user_to_graph_vertex > DISTANCE_TO_GRAPH_THRESHOLD * diffs_from_user_to_goal

\* PathFinderV2.__is_rate_worse
is_rate_worse(user_rate, graph_vertex_rate) == user_rate > 0 /\ graph_vertex_rate = 0

\* __go_through_graph comparing with the distance from the empty code alone,
\* not with the whole path empty -> user -> goal.
go_through_graph_empty_only(version, user_to_goal, empty_to_user, user_to_graph_vertex, user_rate, graph_vertex_rate) ==
    IF is_most_of_path_is_done(empty_to_user, user_to_goal)
    THEN [value |-> FALSE, error |-> ""]
    ELSE IF version = 2 /\ is_rate_worse(user_rate, graph_vertex_rate)
    THEN [value |-> FALSE, error |-> ""]
    ELSE IF user_to_goal = 0
    THEN [value |-> FALSE, error |-> "ZeroDivisionError"]
    ELSE [value |-> ~is_far_from_graph(user_to_goal, user_to_graph_vertex), error |-> ""]

\* __go_through_graph that looks at the distance to the graph vertex first
\* and at the part of the path done after it.
go_through_graph_far_first(version, user_to_goal, empty_to_user, user_to_graph_vertex, user_rate, graph_vertex_rate) ==
    IF user_to_goal = 0
    THEN [value |-> FALSE, error |-> "ZeroDivisionError"]
    ELSE IF is_far_from_graph(user_to_goal, user_to_graph_vertex)
    THEN [value |-> FALSE, error |-> ""]
    ELSE IF is_most_of_path_is_done(empty_to_user + user_to_goal, user_to_goal)
    THEN [value |-> FALSE, error |-> ""]
    ELSE [value |-> ~(version = 2 /\ is_rate_worse(user_rate, graph_vertex_rate)), error |-> ""]

\* __go_through_graph of the legacy PathFinder (version 0), PathFinderV1
\* (version 1) and PathFinderV2 (version 2): [value, error].  The division raises when the user is at distance 0 of the goal.
go_through_graph(version, user_to_goal, empty_to_user, user_to_graph_vertex, user_rate, graph_vertex_rate) ==
    IF is_most_of_path_is_done(empty_to_user + user_to_goal, user_to_goal)
    THEN [value |-> FALSE, error |-> ""]
    ELSE IF version = 2 /\ is_rate_worse(user_rate, graph_vertex_rate)
    THEN [value |-> FALSE, error |-> ""]
    ELSE IF user_to_goal = 0
    THEN [value |-> FALSE, error |-> "ZeroDivisionError"]
    ELSE [value |-> ~is_far_from_graph(user_to_goal, user_to_graph_vertex), error |-> ""]

\* The last step of find_next_vertex: "anchor" for the graph vertex, "goal" for
\* the goal, or the error raised on the way.
\*     if graph_vertex and self.__go_through_graph(...): return graph_vertex
\*     else: return goal
choose_next(version, has_graph_vertex, user_to_goal, empty_to_user, user_to_graph_vertex, user_rate, graph_vertex_rate) ==
    IF ~has_graph_vertex THEN "goal"
    ELSE LET r == go_through_graph(version, user_to_goal, empty_to_user,
                                   user_to_graph_vertex, user_rate, graph_vertex_rate)
         IN IF r.error # "" THEN r.error
            ELSE IF r.value THEN "anchor" ELSE "goal"

\* A set of ids as a list in ascending order.
RECURSIVE SortedSeq(_)
SortedSeq(S) == IF S = {} THEN <<>> ELSE <<Min(S)>> \o SortedSeq(S \ {Min(S)})

\* Vertex.get_dist: the distance from one vertex to another.
get_dist(t, src, dst) == VertexDist(t, src, dst)

\* The graph's own vertex of the empty code.
empty_vertex == Vertex(Code(EMPTY_TREE, CORRECT_CODE), CodeInfo(0, 0))

\* len(vertex.get_unique_users())
users_count(v) == Cardinality({ci.user : ci \in code_info_list(v)})

\* a < b for the measured vertices of candidates a and b: the closer one is
\* better, and of two equally close ones the one more users passed through.
measured_vertex_lt(t, user_vertex, a, b) ==
    \/ get_dist(t, user_vertex, a) < get_dist(t, user_vertex, b)
    \/ /\ get_dist(t, user_vertex, a) = get_dist(t, user_vertex, b)
       /\ users_count(a) > users_count(b)

\* __choose_best_vertex that measures a sentinel as the best candidate.
choose_best_vertex_sentinel_first(t, vs, user_vertex, ids) ==
    IF Len(ids) = 0 THEN [vertex |-> NoVertex, error |-> ""]
    ELSE IF \E i \in 1..Len(ids) : IsSentinel(ids[i])
    THEN [vertex |-> ids[Min({i \in 1..Len(ids) : IsSentinel(ids[i])})], error |-> ""]
    ELSE LET best == {i \in 1..Len(ids) :
                         \A j \in 1..Len(ids) :
                             ~measured_vertex_lt(t, user_vertex, vs[ids[j]], vs[ids[i]])}
         IN [vertex |-> ids[Min(best)], error |-> ""]

\* __choose_best_vertex: None for no candidates, else candidates[0] of the
\* stably sorted list: the first candidate that no other one is better than.
\* A candidate without code (a sentinel) cannot be measured.
choose_best_vertex(t, vs, user_vertex, ids) ==
    IF Len(ids) = 0 THEN [vertex |-> NoVertex, error |-> ""]
    ELSE IF \E i \in 1..Len(ids) : IsSentinel(ids[i])
    THEN [vertex |-> NoVertex, error |-> "AttributeError"]
    ELSE LET best == {i \in 1..Len(ids) :
                         \A j \in 1..Len(ids) :
                             ~measured_vertex_lt(t, user_vertex, vs[ids[j]], vs[ids[i]])}
         IN [vertex |-> ids[Min(best)], error |-> ""]

\* __find_closest_goal: the best of the end vertex's parents.
find_closest_goal(t, vs, user_vertex) ==
    choose_best_vertex(t, vs, user_vertex, SortedSeq(Parents(vs, END)))

\* The traversal without the start vertex.
TraversalWithoutStart(vs) == Tail(get_traversal(vs))

IsEmptyCodeVertex(v) == v.canon = CanonOf(EMPTY_TREE) /\ v.anon_trees[1].tree = EMPTY_TREE

\* PathFinderV1.__find_closest_vertex_with_path: the best vertex of the
\* traversal that is not the user's own canonical tree, is not the empty code
\* and is no farther from the goal than goal.get_dist(user_vertex).
find_closest_vertex_with_path_v1(t, g, user_vertex, goal) ==
    LET vs == g.vertices
        user_diffs_to_goal == get_dist(t, vs[goal], user_vertex)
        candidates == SelectSeq(TraversalWithoutStart(vs),
            LAMBDA id :
                /\ ~are_asts_equal(user_vertex.canon, vs[id].canon)
                /\ ~IsEmptyCodeVertex(vs[id])
                /\ get_dist_between_vertices(g.dist, id, goal) <= user_diffs_to_goal)
    IN choose_best_vertex(t, vs, user_vertex, candidates)

\* Lines of get_code_from_tree(canon_tree).strip('\n').split('\n'); the empty
\* code has the one line ''.
CanonLines(c) ==
    CASE c = 0 -> <<"v0 = 5", "if (v0 < 6):", "    print(v0)">>
      [] c = 1 -> <<"v0 = int(input())", "v1 = 5", "print(((v0 + v2) * 6))">>
      [] c = 2 -> <<"v0 = int(input())", "v1 = int(input())">>
      [] OTHER -> <<"">>

\* line in user_code
LineInCode(line, c) == line = "" \/ InRange(CanonLines(c), line)

\* PathFinderV2.__get_rollback_probability <= ROLLBACK_PROBABILITY (0.7): the
\* share of the vertex's lines that occur in the user's code.
rollback_probability_is_small(user_canon, vertex_canon) ==
    LET lines == CanonLines(vertex_canon)
        included_lines_count == Cardinality({i \in 1..Len(lines) : LineInCode(lines[i], user_canon)})
    IN 10 * included_lines_count <= 7 * Len(lines)

\* PathFinderV2.__find_closest_vertex_with_path: the best child of the vertex
\* with the user's canonical tree when the graph has one, else the best vertex
\* of the traversal with a small rollback probability.
find_closest_vertex_with_path_v2(t, g, user_vertex, goal) ==
    LET vs == g.vertices
        vertex_in_graph == find_vertex(vs, user_vertex.canon)
        candidates == SelectSeq(TraversalWithoutStart(vs),
            LAMBDA id : rollback_probability_is_small(user_vertex.canon, vs[id].canon))
    IN IF vertex_in_graph # NoVertex
       THEN choose_best_vertex(t, vs, user_vertex, vs[vertex_in_graph].children)
       ELSE choose_best_vertex(t, vs, user_vertex, candidates)

\* find_next_vertex of PathFinderV1 / PathFinderV2: [vertex, goal, anchor, error].
\* With no goal, __find_closest_goal returns None and the next statement asks
\* None for a distance.
find_next_vertex(version, t, g, user_vertex) ==
    LET vs == g.vertices
        goal == find_closest_goal(t, vs, user_vertex)
        none == [vertex |-> NoVertex, goal |-> goal.vertex, anchor |-> NoVertex, error |-> ""]
    IN IF goal.error # "" THEN [none EXCEPT !.error = goal.error]
       ELSE IF goal.vertex = NoVertex THEN [none EXCEPT !.error = "AttributeError"]
       ELSE LET graph_vertex ==
                    IF version = 1
                    THEN find_closest_vertex_with_path_v1(t, g, user_vertex, goal.vertex)
                    ELSE find_closest_vertex_with_path_v2(t, g, user_vertex, goal.vertex)
                a == graph_vertex.vertex
                next == choose_next(version, a # NoVertex,
                                    get_dist(t, user_vertex, vs[goal.vertex]),
                                    get_dist(t, empty_vertex, user_vertex),
                                    IF a = NoVertex THEN 0 ELSE get_dist(t, user_vertex, vs[a]),
                                    user_vertex.rate,
                                    IF a = NoVertex THEN NoRate ELSE vs[a].rate)
            IN IF graph_vertex.error # "" THEN [none EXCEPT !.error = graph_vertex.error]
               ELSE IF next = "anchor"
               THEN [vertex |-> a, goal |-> goal.vertex, anchor |-> a, error |-> ""]
               ELSE IF next = "goal"
               THEN [vertex |-> goal.vertex, goal |-> goal.vertex, anchor |-> a, error |-> ""]
               ELSE [none EXCEPT !.anchor = a, !.error = next]

\* HintHandler.get_hint: the user's vertex is built with rate 0 and is not put
\* into the graph; the hint is made from the vertex the path finder returns.
get_hint(version, t, g, anon, code_info) ==
    find_next_vertex(version, t, g, Vertex(Code(anon, 0), code_info))

(* ------------------------------- inputs -------------------------------- *)

\* The rate the test runner gives a fragment; fragments of one canonical class
\* are the same solution and get the same rate.
RateOf(a) ==
    CASE CanonOf(a) = 0 -> 50
      [] CanonOf(a) = 1 -> FULL_SOLUTION
      [] OTHER          -> CORRECT_CODE

\* The code states learners hand in.
Codes == {Code(a, RateOf(a)) : a \in AnonTrees}

Rates == {0, 25, 50, FULL_SOLUTION}

\* A chain of one user: codes[i] with CodeInfo first + i.
ChainOf(codes, first, user) ==
    [i \in 1..Len(codes) |-> Element(codes[i], CodeInfo(first + i, user))]

\* A raw history of one user, as __create_code_info_chain hands it to loop
\* removal: trees[i] with its rate and CodeInfo i.
RawChain(trees) == ChainOf([i \in 1..Len(trees) |-> Code(trees[i], RateOf(trees[i]))], 0, 1)

NoRet ==
    [op |-> "none", chain |-> <<>>, vertex |-> NoVertex, visited |-> <<>>,
     goal |-> NoVertex, anchor |-> NoVertex, file |-> "None", error |-> ""]

LrIdle == [chain |-> <<>>, once |-> <<>>, twice |-> <<>>, pc |-> "idle"]

RtIdle ==
    [version |-> 0, has_graph_vertex |-> FALSE, user_to_goal |-> 0, empty_to_user |-> 0,
     user_to_graph_vertex |-> 0, user_rate |-> 0, graph_vertex_rate |-> 0, next |-> "idle"]

\* No ranking asked for yet.
NoUserTree ==
    [tree |-> NoTree, rate |-> NoRate, ast_structure |-> 0,
     age_median |-> NoRate, experience_median |-> NoRate]

MtIdle == [kind |-> "none", user_tree |-> NoUserTree, candidates |-> <<>>,
           sorted |-> <<>>, best |-> 0, chosen |-> FALSE]

\* No request in flight.
ReqIdle == <<>>

\* No anonymized tree under find_medians.
AtIdle == <<>>

\* No data frame under splitting.
DfIdle == <<>>

(* ------------------------- the graph's operations ---------------------- *)

InitGraph ==
    /\ vertices = <<Sentinel("start"), Sentinel("end")>>
    /\ dist = <<>>
    /\ used = 0
    /\ ret = NoRet
    /\ mt = MtIdle
    /\ req = ReqIdle
    /\ at = AtIdle
    /\ df = DfIdle

Init ==
    /\ InitGraph
    /\ tool \in Tools
    /\ lr = LrIdle
    /\ rt = RtIdle

\* sg.find_or_create_vertex(code, code_info), each call with a user of its own.
FindOrCreateVertex ==
    /\ used < MaxElems
    /\ \E code \in Codes \cup {NoCode} :
          LET ci == CodeInfo(used + 1, used + 1)
              r == find_or_create_vertex(tool, Graph(vertices, dist), code, ci)
          IN /\ vertices' = r.g.vertices
             /\ dist' = r.g.dist
             /\ ret' = [NoRet EXCEPT !.op = "find_or_create_vertex",
                                     !.chain = <<Element(code, ci)>>,
                                     !.vertex = r.vertex, !.error = r.error]
    /\ used' = used + 1
    /\ UNCHANGED <<tool, lr, rt, mt, req, at, df>>

\* sg.add_code_info_chain(chain) with the chain as given (no loop removal).
AddCodeInfoChain ==
    /\ \E n \in 1..(MaxElems - used) : \E codes \in [1..n -> Codes] :
          LET chain == ChainOf(codes, used, used + 1)
              r == add_code_info_chain(tool, Graph(vertices, dist), chain)
          IN /\ vertices' = r.g.vertices
             /\ dist' = r.g.dist
             /\ ret' = [NoRet EXCEPT !.op = "add_code_info_chain", !.chain = chain,
                                     !.visited = r.visited, !.error = r.error]
             /\ used' = used + n
    /\ UNCHANGED <<tool, lr, rt, mt, req, at, df>>

\* HintHandler(graph, algo_version).get_hint(source_code, code_info)
GetHint ==
    /\ used < MaxElems
    /\ \E version \in {1, 2} : \E a \in AnonTrees :
          LET ci == CodeInfo(used + 1, used + 1)
              r == get_hint(version, tool, Graph(vertices, dist), a, ci)
          IN ret' = [NoRet EXCEPT !.op = "get_hint", !.chain = <<Element(Code(a, 0), ci)>>,
                                  !.vertex = r.vertex, !.goal = r.goal,
                                  !.anchor = r.anchor, !.error = r.error]
    /\ used' = used + 1
    /\ UNCHANGED <<vertices, dist, tool, lr, rt, mt, req, at, df>>

Next == FindOrCreateVertex \/ AddCodeInfoChain \/ GetHint

Spec == Init /\ [][Next]_vars

(* ------------- the graph with a direction-dependent tool --------------- *)

InitAsymmetric ==
    /\ InitGraph
    /\ tool = ASYMMETRIC_TOOL
    /\ lr = LrIdle
    /\ rt = RtIdle

\* HintHandler.get_hint with PathFinderV1.
GetHintV1 ==
    /\ used < MaxElems
    /\ \E a \in AnonTrees :
          LET ci == CodeInfo(used + 1, used + 1)
              r == get_hint(1, tool, Graph(vertices, dist), a, ci)
          IN ret' = [NoRet EXCEPT !.op = "get_hint", !.chain = <<Element(Code(a, 0), ci)>>,
                                  !.vertex = r.vertex, !.goal = r.goal,
                                  !.anchor = r.anchor, !.error = r.error]
    /\ used' = used + 1
    /\ UNCHANGED <<vertices, dist, tool, lr, rt, mt, req, at, df>>

NextAsymmetric == FindOrCreateVertex \/ AddCodeInfoChain \/ GetHintV1

SpecAsymmetric == InitAsymmetric /\ [][NextAsymmetric]_vars

(* ---------------------- construct_solution_graph ----------------------- *)

\* One file of construct_solution_graph: __create_code_info_chain ends with
\* __remove_loops, and the chain it returns goes to add_code_info_chain.
HandleFile ==
    /\ \E n \in 1..(MaxElems - used) : \E codes \in [1..n -> Codes] :
          LET user == used + 1
              chain == remove_loops(ChainOf(codes, used, user), CodeInfo(0 - user, user))
              r == add_code_info_chain(tool, Graph(vertices, dist), chain)
          IN /\ vertices' = r.g.vertices
             /\ dist' = r.g.dist
             /\ ret' = [NoRet EXCEPT !.op = "construct_solution_graph", !.chain = chain,
                                     !.visited = r.visited, !.error = r.error]
             /\ used' = used + n
    /\ UNCHANGED <<tool, lr, rt, mt, req, at, df>>

NextConstruct == HandleFile \/ GetHint

SpecConstruct == Init /\ [][NextConstruct]_vars

(* ------------------------- loop removal alone -------------------------- *)

InitLoops ==
    /\ InitGraph
    /\ tool = 1
    /\ rt = RtIdle
    /\ \E n \in 0..MaxChainLen : \E trees \in [1..n -> AnonTrees] :
          lr = [LrIdle EXCEPT !.chain = RawChain(trees), !.pc = "given"]

\* __remove_loops(code_info_chain, user)
RemoveLoops ==
    /\ lr.pc = "given"
    /\ lr' = [lr EXCEPT !.once = remove_loops(lr.chain, CodeInfo(-1, 1)), !.pc = "once"]
    /\ UNCHANGED <<vertices, dist, tool, used, ret, rt, mt, req, at, df>>

\* __remove_loops applied to the chain it returned.
RemoveLoopsAgain ==
    /\ lr.pc = "once"
    /\ lr' = [lr EXCEPT !.twice = remove_loops(lr.once, CodeInfo(-2, 1)), !.pc = "twice"]
    /\ UNCHANGED <<vertices, dist, tool, used, ret, rt, mt, req, at, df>>

NextLoops == RemoveLoops \/ RemoveLoopsAgain

SpecLoops == InitLoops /\ [][NextLoops]_vars

(* ------------------------ routing decision alone ----------------------- *)

InitRoute ==
    /\ InitGraph
    /\ tool = 1
    /\ lr = LrIdle
    /\ rt \in [version : {0, 1, 2}, has_graph_vertex : BOOLEAN, user_to_goal : 0..MaxDist,
               empty_to_user : 0..MaxDist, user_to_graph_vertex : 0..MaxDist,
               user_rate : Rates, graph_vertex_rate : Rates, next : {"asked"}]

\* The choice find_next_vertex makes between the goal and the graph vertex.
ChooseNext ==
    /\ rt.next = "asked"
    /\ rt' = [rt EXCEPT !.next = choose_next(rt.version, rt.has_graph_vertex, rt.user_to_goal,
                                             rt.empty_to_user, rt.user_to_graph_vertex,
                                             rt.user_rate, rt.graph_vertex_rate)]
    /\ UNCHANGED <<vertices, dist, tool, used, ret, lr, mt, req, at, df>>

NextRoute == ChooseNext

SpecRoute == InitRoute /\ [][NextRoute]_vars

(* ---------------------------- get_traversal --------------------------- *)

\* test_bfs_traversal: vertex_1 .. vertex_6 are made without code and linked by
\* connect_to_start_vertex, add_child and connect_to_end_vertex.
DiamondVertices == 6

BareVertex ==
    [type |-> "intermediate", canon |-> NoTree, rate |-> NoRate, anon_trees |-> <<>>,
     children |-> <<>>]

\* The id of vertex_k.
TestVertex(k) == k + 2

\* The edges of the test's diamond.
DiamondEdges ==
    {<<START, TestVertex(1)>>,
     <<TestVertex(1), TestVertex(2)>>, <<TestVertex(1), TestVertex(3)>>,
     <<TestVertex(1), TestVertex(4)>>,
     <<TestVertex(2), TestVertex(5)>>, <<TestVertex(3), TestVertex(5)>>,
     <<TestVertex(3), TestVertex(6)>>, <<TestVertex(4), TestVertex(6)>>,
     <<TestVertex(6), END>>}

\* The edges a run may add, in any order: the diamond's, one more child of
\* start and an edge back from vertex_5 to vertex_1.
EdgePool == DiamondEdges \cup {<<START, TestVertex(4)>>, <<TestVertex(5), TestVertex(1)>>}

InitTraversal ==
    /\ vertices = <<Sentinel("start"), Sentinel("end")>> \o [k \in 1..DiamondVertices |-> BareVertex]
    /\ dist = <<>>
    /\ used = 0
    /\ ret = NoRet
    /\ tool = 1
    /\ lr = LrIdle
    /\ rt = RtIdle
    /\ mt = MtIdle
    /\ req = ReqIdle
    /\ at = AtIdle
    /\ df = DfIdle

\* sg.connect_to_start_vertex(vertex)
ConnectToStartVertex ==
    /\ \E e \in EdgePool :
          /\ e[1] = START
          /\ vertices' = connect_to_start_vertex(vertices, e[2])
    /\ ret' = [NoRet EXCEPT !.op = "connect_to_start_vertex"]
    /\ UNCHANGED <<dist, tool, used, lr, rt, mt, req, at, df>>

\* vertex.add_child(child)
VertexAddChild ==
    /\ \E e \in EdgePool :
          /\ e[1] # START /\ e[2] # END
          /\ vertices' = add_child(vertices, e[1], e[2])
    /\ ret' = [NoRet EXCEPT !.op = "add_child"]
    /\ UNCHANGED <<dist, tool, used, lr, rt, mt, req, at, df>>

\* sg.connect_to_end_vertex(vertex)
ConnectToEndVertex ==
    /\ \E e \in EdgePool :
          /\ e[2] = END
          /\ vertices' = connect_to_end_vertex(vertices, e[1])
    /\ ret' = [NoRet EXCEPT !.op = "connect_to_end_vertex"]
    /\ UNCHANGED <<dist, tool, used, lr, rt, mt, req, at, df>>

\* sg.get_traversal()
GetTraversal ==
    /\ ret' = [NoRet EXCEPT !.op = "get_traversal", !.visited = get_traversal(vertices)]
    /\ UNCHANGED <<vertices, dist, tool, used, lr, rt, mt, req, at, df>>

NextTraversal == ConnectToStartVertex \/ VertexAddChild \/ ConnectToEndVertex \/ GetTraversal

SpecTraversal == InitTraversal /\ [][NextTraversal]_vars

(* ---------------------- SerializedCode.add_anon_tree ------------------ *)

\* The vertex that holds the SerializedCode under test.
HOLDER == 3

\* SerializedCode.__init__(code, code_info): one variant, the code's rate.
InitVariants ==
    /\ \E code \in Codes :
          vertices = <<Sentinel("start"), Sentinel("end"), Vertex(code, CodeInfo(0, 0))>>
    /\ dist = <<>>
    /\ used = 0
    /\ ret = NoRet
    /\ tool = 1
    /\ lr = LrIdle
    /\ rt = RtIdle
    /\ mt = MtIdle
    /\ req = ReqIdle
    /\ at = AtIdle
    /\ df = DfIdle

\* serialized_code.add_anon_tree(anon_tree, rate, code_info) with an anonymized
\* tree of the SerializedCode's canonical tree and any rate; the value returned
\* is the new variant's file, or None.
AddAnonTree ==
    /\ used < MaxElems
    /\ \E tree \in {a \in AnonTrees : CanonOf(a) = vertices[HOLDER].canon} : \E rate \in Rates :
          LET ci == CodeInfo(used + 1, used + 1)
              r == add_anon_tree(vertices[HOLDER], tree, rate, ci)
          IN /\ vertices' = [vertices EXCEPT ![HOLDER].anon_trees = r.anon_trees]
             /\ ret' = [NoRet EXCEPT !.op = "add_anon_tree",
                                     !.chain = <<Element(Code(tree, rate), ci)>>,
                                     !.file = IF r.added THEN "anon_file" ELSE "None",
                                     !.error = r.error]
    /\ used' = used + 1
    /\ UNCHANGED <<dist, tool, lr, rt, mt, req, at, df>>

NextVariants == AddAnonTree

SpecVariants == InitVariants /\ [][NextVariants]_vars

(* ------------------------------- ranking ------------------------------- *)

\* Candidate trees one ranking by MeasuredTreeV7 measures and sorts.
MaxTrees == 2

\* Candidate vertices one ranking by the legacy PathFinder measures and sorts.
MaxMeasuredVertices == 3

\* consts.EMPTY_MEDIAN
EMPTY_MEDIAN == -1

\* USERS_NUMBER[task]: the number of users that solved the task.
USERS_NUMBER == 4

\* MeasuredTreeV7's weights 0.15, 0.15, 0.5, -0.5, 4.0, 0.3, 6.5 in twentieths,
\* so that the weighted sum is computed in exact fractions.
age_w == 3

exp_w == 3

diffs_w == 10

users_w == -10

rollback_w == 80

rate_w == 6

structure_w == 130

\* math.inf as a number of diffs; GumTreeDiff gives numbers >= 0.
math_inf == -1

Abs(x) == IF x < 0 THEN -x ELSE x

\* The learner's anonymized tree, with and without medians.
UserTrees ==
    {[tree |-> 0, rate |-> 50, ast_structure |-> 0, age_median |-> m[1], experience_median |-> m[2]] :
        m \in {<<EMPTY_MEDIAN, EMPTY_MEDIAN>>, <<20, 1>>}}

\* Candidate anonymized trees: tree 0 is AST-equal to the learner's; diffs and
\* delete_edits are what GumTreeDiff.get_diffs_and_delete_edits_numbers gives
\* for the learner's tree and the candidate; users is the number of unique users.
CandidateTrees ==
    {c \in [tree : {0, 3, 4}, rate : {50, FULL_SOLUTION}, ast_structure : {0},
            age_median : {EMPTY_MEDIAN, 30}, experience_median : {EMPTY_MEDIAN, 3},
            users : {1, 2}, diffs : {0, 2}, delete_edits : {0, 1}] :
        /\ (c.age_median = EMPTY_MEDIAN) <=> (c.experience_median = EMPTY_MEDIAN)
        /\ c.delete_edits <= c.diffs
        /\ c.tree = 0 => c.diffs = 0}

\* AnonTree.have_non_empty_attr for the learner's tree and the candidate.
have_non_empty_attr(m1, m2) == m1 # EMPTY_MEDIAN /\ m2 # EMPTY_MEDIAN

\* MeasuredTreeV7 that takes infinity for AST-equal trees only and keeps an
\* edit distance of 0 as the number of diffs.
MeasuredTreeV7_zero_diffs(user_tree, c) ==
    LET infinite == are_asts_equal(user_tree.tree, c.tree) \/ c.diffs = 0 IN
    [kind |-> "MeasuredTreeV7", id |-> 0, tree |-> c.tree, diffs |-> c.diffs,
     diffs_number |-> IF are_asts_equal(user_tree.tree, c.tree) THEN math_inf ELSE c.diffs,
     rollback |-> IF infinite THEN [num |-> 0, den |-> 1]
                  ELSE [num |-> c.delete_edits, den |-> c.diffs],
     users_number |-> c.users,
     rate |-> user_tree.rate - c.rate,
     ast_structure |-> user_tree.ast_structure - c.ast_structure,
     age |-> IF have_non_empty_attr(user_tree.age_median, c.age_median)
             THEN Abs(user_tree.age_median - c.age_median) ELSE 0,
     exp |-> IF have_non_empty_attr(user_tree.experience_median, c.experience_median)
             THEN Abs(user_tree.experience_median - c.experience_median) ELSE 0]

\* MeasuredTreeV7(user_tree, candidate_tree): __init_diffs_number_and_rollback_probability
\* and the terms of __calculate_distance_to_user; rollback is a fraction.
MeasuredTreeV7(user_tree, c) ==
    LET infinite == are_asts_equal(user_tree.tree, c.tree) \/ c.diffs = 0 IN
    [kind |-> "MeasuredTreeV7", id |-> 0, tree |-> c.tree, diffs |-> c.diffs,
     diffs_number |-> IF infinite THEN math_inf ELSE c.diffs,
     rollback |-> IF infinite THEN [num |-> 0, den |-> 1]
                  ELSE [num |-> c.delete_edits, den |-> c.diffs],
     users_number |-> c.users,
     rate |-> user_tree.rate - c.rate,
     ast_structure |-> user_tree.ast_structure - c.ast_structure,
     age |-> IF have_non_empty_attr(user_tree.age_median, c.age_median)
             THEN Abs(user_tree.age_median - c.age_median) ELSE 0,
     exp |-> IF have_non_empty_attr(user_tree.experience_median, c.experience_median)
             THEN Abs(user_tree.experience_median - c.experience_median) ELSE 0]

\* The legacy MeasuredVertex(user_code, vertex, user, distance): a distance and
\* the number of unique users of the vertex.
MeasuredVertex(distance, users) ==
    [kind |-> "MeasuredVertex", id |-> 0, tree |-> NoTree, diffs |-> distance, diffs_number |-> distance,
     rollback |-> [num |-> 0, den |-> 1], users_number |-> users,
     rate |-> 0, ast_structure |-> 0, age |-> 0, exp |-> 0]

\* __calculate_distance_to_user: the weighted sum as the fraction num / den (in
\* twentieths; rates are in hundredths), or infinite with math.inf diffs.
distance_to_user(m) ==
    LET d == 100 * USERS_NUMBER * m.rollback.den IN
    [inf |-> m.diffs_number = math_inf,
     den |-> d,
     num |-> diffs_w * m.diffs_number * d
             + users_w * m.users_number * 100 * m.rollback.den
             + rate_w * m.rate * USERS_NUMBER * m.rollback.den
             + rollback_w * m.rollback.num * 100 * USERS_NUMBER
             + structure_w * m.ast_structure * d
             + age_w * m.age * d
             + exp_w * m.exp * d]

\* MeasuredTreeV7.__lt__
MeasuredTreeV7_lt(a, b) ==
    LET x == distance_to_user(a)
        y == distance_to_user(b)
    IN IF x.inf THEN FALSE
       ELSE IF y.inf THEN TRUE
       ELSE x.num * y.den < y.num * x.den

\* MeasuredVertex.__lt__
MeasuredVertex_lt(a, b) ==
    IF a.diffs_number < b.diffs_number THEN TRUE
    ELSE a.users_number < b.users_number

lt(a, b) == IF a.kind = "MeasuredVertex" THEN MeasuredVertex_lt(a, b) ELSE MeasuredTreeV7_lt(a, b)

Reverse(s) == [i \in 1..Len(s) |-> s[Len(s) + 1 - i]]

InsertAt(s, pos, x) == SubSeq(s, 1, pos) \o <<x>> \o SubSeq(s, pos + 1, Len(s))

\* list.sort, count_run: the last index of the run that starts the list,
\* strictly descending or not.
RECURSIVE RunEnd(_, _, _)
RunEnd(s, k, descending) ==
    IF k > Len(s) THEN Len(s)
    ELSE IF lt(s[k], s[k - 1]) = descending THEN RunEnd(s, k + 1, descending)
    ELSE k - 1

\* list.sort, binarysort: where the pivot goes in the sorted prefix, between
\* l and r, after the elements it is not less than.
RECURSIVE BinPos(_, _, _, _)
BinPos(sorted, pivot, l, r) ==
    IF l >= r THEN l
    ELSE LET p == l + ((r - l) \div 2) IN
         IF lt(pivot, sorted[p + 1]) THEN BinPos(sorted, pivot, l, p)
         ELSE BinPos(sorted, pivot, p + 1, r)

RECURSIVE BinarySort(_, _, _)
BinarySort(sorted, s, k) ==
    IF k > Len(s) THEN sorted
    ELSE BinarySort(InsertAt(sorted, BinPos(sorted, s[k], 0, Len(sorted)), s[k]), s, k + 1)

\* candidates.sort(): Python's list.sort on a short list, a run reversed if
\* descending and the rest inserted by binary search, all with __lt__ only.
list_sort(s) ==
    IF Len(s) < 2 THEN s
    ELSE LET descending == lt(s[2], s[1])
             run == RunEnd(s, 3, descending)
             prefix == SubSeq(s, 1, run)
         IN BinarySort(IF descending THEN Reverse(prefix) ELSE prefix, s, run + 1)

\* __choose_best_vertex: None (0) for no candidates; the legacy PathFinder takes
\* the last of the sorted candidates, the others take the first.
choose_best_candidate(kind, candidates) ==
    LET sorted == list_sort(candidates) IN
    IF Len(candidates) = 0 THEN 0
    ELSE IF kind = "MeasuredVertex" THEN sorted[Len(sorted)].id
    ELSE sorted[1].id

InitRank ==
    /\ vertices = <<Sentinel("start"), Sentinel("end")>>
    /\ dist = <<>>
    /\ used = 0
    /\ ret = NoRet
    /\ tool = 1
    /\ lr = LrIdle
    /\ rt = RtIdle
    /\ req = ReqIdle
    /\ at = AtIdle
    /\ df = DfIdle
    /\ \E u \in UserTrees : mt = [MtIdle EXCEPT !.user_tree = u]

\* One more candidate tree measured against the learner's tree; the trees of
\* the graph are pairwise not AST-equal.
MeasureTree ==
    /\ mt.kind \in {"none", "MeasuredTreeV7"}
    /\ ~mt.chosen
    /\ Len(mt.candidates) < MaxTrees
    /\ \E c \in CandidateTrees :
          /\ \A i \in 1..Len(mt.candidates) : ~are_asts_equal(mt.candidates[i].tree, c.tree)
          /\ mt' = [mt EXCEPT !.kind = "MeasuredTreeV7",
                             !.candidates = Append(@, [MeasuredTreeV7(mt.user_tree, c)
                                                          EXCEPT !.id = Len(mt.candidates) + 1])]
    /\ UNCHANGED <<vertices, dist, tool, used, ret, lr, rt, req, at, df>>

\* One more candidate vertex measured by the legacy PathFinder.
MeasureVertex ==
    /\ mt.kind \in {"none", "MeasuredVertex"}
    /\ ~mt.chosen
    /\ Len(mt.candidates) < MaxMeasuredVertices
    /\ \E distance \in {1, 2} : \E users \in {1, 2, 3} :
          mt' = [mt EXCEPT !.kind = "MeasuredVertex",
                           !.candidates = Append(@, [MeasuredVertex(distance, users)
                                                        EXCEPT !.id = Len(mt.candidates) + 1])]
    /\ UNCHANGED <<vertices, dist, tool, used, ret, lr, rt, req, at, df>>

\* __choose_best_vertex on the candidates measured so far.
ChooseBestVertex ==
    /\ ~mt.chosen
    /\ mt' = [mt EXCEPT !.sorted = list_sort(mt.candidates),
                        !.best = choose_best_candidate(mt.kind, mt.candidates),
                        !.chosen = TRUE]
    /\ UNCHANGED <<vertices, dist, tool, used, ret, lr, rt, req, at, df>>

NextRank == MeasureTree \/ MeasureVertex \/ ChooseBestVertex

SpecRank == InitRank /\ [][NextRank]_vars

(* ------------------ interleaved find_or_create_vertex ------------------ *)

\* The threads that serve requests on one graph.
Threads == {1, 2}

\* A thread with no request.
NoRequest == [pc |-> "idle", code |-> NoCode, code_info |-> CodeInfo(0, 0), found |-> NoVertex]

\* find_or_create_vertex after its find_vertex call returned found: a miss
\* creates the vertex, a hit merges the code into the vertex found.
create_or_merge(t, g, found, code, code_info) ==
    IF found = NoVertex THEN create_vertex(t, g, code, code_info)
    ELSE LET r == add_anon_tree(g.vertices[found], code.anon, code.rate, code_info)
             merged == [g.vertices EXCEPT ![found].anon_trees = r.anon_trees]
         IN IF r.error # "" THEN [g |-> g, vertex |-> NoVertex, error |-> r.error]
            ELSE [g |-> Graph(merged,
                              IF r.added
                              THEN update_dist(t, g.dist, g.vertices, found, code.anon)
                              ELSE g.dist),
                  vertex |-> found, error |-> ""]

InitConcurrent ==
    /\ vertices = <<Sentinel("start"), Sentinel("end")>>
    /\ dist = <<>>
    /\ used = 0
    /\ ret = NoRet
    /\ tool \in Tools
    /\ lr = LrIdle
    /\ rt = RtIdle
    /\ mt = MtIdle
    /\ req = [th \in Threads |-> NoRequest]
    /\ at = AtIdle
    /\ df = DfIdle

\* A thread enters find_or_create_vertex(code, code_info) and runs find_vertex.
Lookup(th) ==
    /\ req[th].pc = "idle"
    /\ used < MaxElems
    /\ \E code \in Codes :
          req' = [req EXCEPT ![th] = [pc |-> "found", code |-> code,
                                      code_info |-> CodeInfo(used + 1, used + 1),
                                      found |-> find_vertex(vertices, CanonOf(code.anon))]]
    /\ used' = used + 1
    /\ UNCHANGED <<vertices, dist, tool, ret, lr, rt, mt, at, df>>

\* The thread goes on with what its find_vertex returned and leaves the method.
CreateOrMerge(th) ==
    /\ req[th].pc = "found"
    /\ LET r == create_or_merge(tool, Graph(vertices, dist), req[th].found,
                                req[th].code, req[th].code_info)
       IN /\ vertices' = r.g.vertices
          /\ dist' = r.g.dist
          /\ ret' = [NoRet EXCEPT !.op = "find_or_create_vertex",
                                  !.chain = <<Element(req[th].code, req[th].code_info)>>,
                                  !.vertex = r.vertex, !.error = r.error]
    /\ req' = [req EXCEPT ![th] = NoRequest]
    /\ UNCHANGED <<tool, used, lr, rt, mt, at, df>>

NextConcurrent ==
    \/ \E th \in Threads : Lookup(th)
    \/ \E th \in Threads : CreateOrMerge(th)
    \/ GetHint

SpecConcurrent == InitConcurrent /\ [][NextConcurrent]_vars

(* ------------------- medians of an anonymized tree --------------------- *)

MaxUsers == 2
MaxCodeInfos == 3

Users == 1..MaxUsers

\* Python's None in a median slot of the tree.
None == -2

\* The values a profile holds when the learner gave none.
DEFAULT_VALUE_AGE == 0
DEFAULT_VALUE_INT_EXPERIENCE == -1

\* The profiles the users are drawn from.
Profiles == [age : {DEFAULT_VALUE_AGE, 20, 30}, experience : {DEFAULT_VALUE_INT_EXPERIENCE, 2}]

RECURSIVE insort(_, _)
insort(s, x) ==
    IF s = <<>> THEN <<x>>
    ELSE IF x <= Head(s) THEN <<x>> \o s
    ELSE <<Head(s)>> \o insort(Tail(s), x)

RECURSIVE sorted(_)
sorted(s) == IF s = <<>> THEN <<>> ELSE insort(sorted(Tail(s)), Head(s))

\* get_safety_median(values, default_value): the median, or the default for an
\* empty list. The inputs are chosen so that the mean of two values is whole.
get_safety_median(values, default_value) ==
    IF values = <<>> THEN default_value
    ELSE LET s == sorted(values)
             n == Len(s)
         IN IF n % 2 = 1 THEN s[(n + 1) \div 2]
            ELSE (s[n \div 2] + s[n \div 2 + 1]) \div 2

\* The users of the events, one entry per event.
RECURSIVE get_unique_users_per_event(_)
get_unique_users_per_event(infos) ==
    IF infos = <<>> THEN <<>>
    ELSE <<Head(infos)>> \o get_unique_users_per_event(Tail(infos))

\* AnonTree.get_unique_users: set([code_info.user for code_info in the list]),
\* listed in the order of first appearance.
RECURSIVE get_unique_users(_)
get_unique_users(infos) ==
    IF infos = <<>> THEN <<>>
    ELSE LET front == get_unique_users(SubSeq(infos, 1, Len(infos) - 1))
             u == infos[Len(infos)]
         IN IF \E i \in DOMAIN front : front[i] = u THEN front ELSE Append(front, u)

\* AnonTree.__find_median(default_value, all_values)
find_median(default_value, all_values) ==
    get_safety_median(SelectSeq(all_values, LAMBDA v : v # default_value), EMPTY_MEDIAN)

\* AnonTree.find_medians
find_medians(t) ==
    LET unique_users == get_unique_users(t.code_info_list)
        ages == [i \in DOMAIN unique_users |-> t.profiles[unique_users[i]].age]
        experiences == [i \in DOMAIN unique_users |-> t.profiles[unique_users[i]].experience]
    IN [t EXCEPT !.age_median = find_median(DEFAULT_VALUE_AGE, ages),
                 !.experience_median = find_median(DEFAULT_VALUE_INT_EXPERIENCE, experiences)]

\* The getters age_median and experience_median: raise while the slot is None.
median_getter(value) ==
    IF value = None THEN [raised |-> TRUE, value |-> None]
    ELSE [raised |-> FALSE, value |-> value]

\* A new AnonTree without code info; its users' profiles are fixed.
InitMedians ==
    /\ vertices = <<Sentinel("start"), Sentinel("end")>>
    /\ dist = <<>>
    /\ used = 0
    /\ ret = NoRet
    /\ tool \in Tools
    /\ lr = LrIdle
    /\ rt = RtIdle
    /\ mt = MtIdle
    /\ req = ReqIdle
    /\ df = DfIdle
    /\ \E profiles \in [Users -> Profiles] :
          at = [profiles |-> profiles, code_info_list |-> <<>>,
                age_median |-> None, experience_median |-> None,
                found |-> FALSE, op |-> "init", read |-> median_getter(None)]

\* add_code_info(code_info) with an event of user u
AddCodeInfo ==
    /\ at # AtIdle
    /\ Len(at.code_info_list) < MaxCodeInfos
    /\ \E u \in Users :
          at' = [at EXCEPT !.code_info_list = Append(@, u), !.op = "add_code_info"]
    /\ UNCHANGED <<vertices, dist, tool, used, ret, lr, rt, mt, req, df>>

\* find_medians()
FindMedians ==
    /\ at # AtIdle
    /\ at' = [find_medians(at) EXCEPT !.found = TRUE, !.op = "find_medians"]
    /\ UNCHANGED <<vertices, dist, tool, used, ret, lr, rt, mt, req, df>>

\* tree.age_median
ReadAgeMedian ==
    /\ at # AtIdle
    /\ at' = [at EXCEPT !.op = "age_median", !.read = median_getter(at.age_median)]
    /\ UNCHANGED <<vertices, dist, tool, used, ret, lr, rt, mt, req, df>>

\* tree.experience_median
ReadExperienceMedian ==
    /\ at # AtIdle
    /\ at' = [at EXCEPT !.op = "experience_median", !.read = median_getter(at.experience_median)]
    /\ UNCHANGED <<vertices, dist, tool, used, ret, lr, rt, mt, req, df>>

NextMedians == AddCodeInfo \/ FindMedians \/ ReadAgeMedian \/ ReadExperienceMedian

SpecMedians == InitMedians /\ [][NextMedians]_vars

(* ------------------- start indices of a task's rows -------------------- *)

MaxRows == 4

\* The values of the chosenTask column: two tasks, and NaN where none is chosen.
PIES == "pies"
ZERO == "is_zero"
NaN == "nan"

\* pd.DataFrame({chosenTask: chosen_tasks}): the rows with the labels 0, 1, ...
DataFrame(chosen_tasks) ==
    [i \in DOMAIN chosen_tasks |-> [index |-> i - 1, chosenTask |-> chosen_tasks[i]]]

\* df[start:stop] with Python's slice positions 0 <= start, stop <= len(df):
\* the rows keep their labels.
Slice(rows, start, stop) == SubSeq(rows, start + 1, stop)

\* df[n:]
crop_first_pies(rows, n) == Slice(rows, IF n > Len(rows) THEN Len(rows) ELSE n, Len(rows))

\* df[:-n]; -0 is 0, which leaves no row
crop_last_pies(rows, n) == Slice(rows, 0, IF n = 0 \/ n > Len(rows) THEN 0 ELSE Len(rows) - n)

\* df[chosenTask].shift(1): every value one row down, NaN in the first row
shift(rows) == [i \in DOMAIN rows |-> IF i = 1 THEN NaN ELSE rows[i - 1].chosenTask]

\* df.index[mask].tolist(): the labels of the rows the mask selects
RECURSIVE index_of_mask(_, _)
index_of_mask(rows, mask) ==
    IF rows = <<>> THEN <<>>
    ELSE LET front == index_of_mask(SubSeq(rows, 1, Len(rows) - 1), SubSeq(mask, 1, Len(rows) - 1))
         IN IF mask[Len(rows)] THEN Append(front, rows[Len(rows)].index) ELSE front

\* find_task_start_indices on the frame with its index reset: the answer is
\* the positions in the frame given.
find_task_start_indices_positions(rows, task) ==
    index_of_mask(DataFrame([i \in DOMAIN rows |-> rows[i].chosenTask]),
                  [i \in DOMAIN rows |-> rows[i].chosenTask = task /\ shift(rows)[i] # task])

\* find_task_start_indices(df, task)
find_task_start_indices(rows, task) ==
    index_of_mask(rows, [i \in DOMAIN rows |-> rows[i].chosenTask = task /\ shift(rows)[i] # task])

\* get_df() of some chosen tasks; nothing cropped, nothing asked.
InitSplitting ==
    /\ vertices = <<Sentinel("start"), Sentinel("end")>>
    /\ dist = <<>>
    /\ used = 0
    /\ ret = NoRet
    /\ tool \in Tools
    /\ lr = LrIdle
    /\ rt = RtIdle
    /\ mt = MtIdle
    /\ req = ReqIdle
    /\ at = AtIdle
    /\ \E n \in 0..MaxRows : \E chosen_tasks \in [1..n -> {PIES, ZERO, NaN}] :
          df = [source |-> chosen_tasks, rows |-> DataFrame(chosen_tasks),
                task |-> NaN, indices |-> <<>>, done |-> FALSE]

\* df = crop_first_pies(df, n)
CropFirstPies ==
    /\ \E n \in 0..MaxRows :
          df' = [df EXCEPT !.rows = crop_first_pies(df.rows, n), !.task = NaN,
                           !.indices = <<>>, !.done = FALSE]
    /\ UNCHANGED <<vertices, dist, tool, used, ret, lr, rt, mt, req, at>>

\* df = crop_last_pies(df, n)
CropLastPies ==
    /\ \E n \in 0..MaxRows :
          df' = [df EXCEPT !.rows = crop_last_pies(df.rows, n), !.task = NaN,
                           !.indices = <<>>, !.done = FALSE]
    /\ UNCHANGED <<vertices, dist, tool, used, ret, lr, rt, mt, req, at>>

\* find_task_start_indices(df, task)
FindTaskStartIndices ==
    /\ \E task \in {PIES, ZERO} :
          df' = [df EXCEPT !.task = task, !.indices = find_task_start_indices(df.rows, task),
                           !.done = TRUE]
    /\ UNCHANGED <<vertices, dist, tool, used, ret, lr, rt, mt, req, at>>

NextSplitting == CropFirstPies \/ CropLastPies \/ FindTaskStartIndices

SpecSplitting == InitSplitting /\ [][NextSplitting]_vars

(* ============================== claims ================================ *)

(* ---- loop removal (SpecLoops) ---- *)

\* The chain the scan of __remove_loops starts from: the synthetic empty
\* element of the first run, then the chain given.
FullChain == <<Element(Code(EMPTY_TREE, CORRECT_CODE), CodeInfo(-1, 1))>> \o lr.chain

\* Position in FullChain of the element with CodeInfo ci.
PosInFull(ci) == IF ci.id = -1 THEN 1 ELSE ci.id + 1

LoopsRemoved == lr.pc \in {"once", "twice"}

\* The two chains of the comment of __remove_loops, with T1..T5 the fragments 0..4.
ExampleLoop == RawChain(<<0, 1, 2, 0, 3>>)

ExampleEmpty == RawChain(<<0, 1, 2, EMPTY_TREE, 4>>)

\* C5: loop removal returns a subsequence of the chain given with the synthetic
\* empty element in front; no two elements of the result have AST-equal
\* (anonymized) trees; every element of the result is the last occurrence of
\* its tree in the input and carries that occurrence's CodeInfo.
\* [T1,T2,T3,T1,T4] becomes [empty,T1,T4]; [T1,T2,T3,Empty,T5] becomes [Empty,T5].
C5_LoopsCollapseToLastOccurrence ==
    LoopsRemoved =>
        LET res == lr.once IN
        /\ \A k \in 1..Len(res) :
              /\ PosInFull(res[k].code_info) \in 1..Len(FullChain)
              /\ res[k] = FullChain[PosInFull(res[k].code_info)]
              /\ \A j \in (PosInFull(res[k].code_info) + 1)..Len(FullChain) :
                    FullChain[j].code.anon # res[k].code.anon
        /\ \A k \in 1..(Len(res) - 1) :
              PosInFull(res[k].code_info) < PosInFull(res[k + 1].code_info)
        /\ \A k, m \in 1..Len(res) : k # m => res[k].code.anon # res[m].code.anon
        /\ lr.chain = ExampleLoop =>
              res = <<FullChain[1], ExampleLoop[4], ExampleLoop[5]>>
        /\ lr.chain = ExampleEmpty =>
              res = <<ExampleEmpty[4], ExampleEmpty[5]>>

\* A loop was collapsed: the chain of the first example went through loop removal.
C5_Witness == LoopsRemoved /\ lr.chain = ExampleLoop /\ Len(lr.once) = 3

\* C6: running loop removal on its own result returns that result, element for
\* element (same trees, same CodeInfos), although the second run puts a new
\* synthetic empty element in front.
C6_LoopRemovalIdempotent == lr.pc = "twice" => lr.twice = lr.once

\* A chain with a loop went through loop removal twice.
C6_Witness ==
    /\ lr.pc = "twice"
    /\ Len(lr.once) < Len(lr.chain)
    /\ Len(lr.once) >= 3

\* C22: after loop removal no two elements of the chain returned have
\* AST-equal canonical trees, whatever their anonymized trees are.
C22_LoopsKeyedOnCanonicalTree ==
    LoopsRemoved =>
        \A k, m \in 1..Len(lr.once) :
            k # m => ~are_asts_equal(CanonOf(lr.once[k].code.anon), CanonOf(lr.once[m].code.anon))

\* C30: loop removal returns (the scan ends, with a chain no longer than the
\* one it started from); the first element of the result is an empty-code
\* element; for a non-empty input the last element of the result is the last
\* element of the input, tree and CodeInfo.
C30_BothEndsKept ==
    LoopsRemoved =>
        /\ Len(lr.once) \in 1..Len(FullChain)
        /\ lr.once[1].code = Code(EMPTY_TREE, CORRECT_CODE)
        /\ Len(lr.chain) > 0 => lr.once[Len(lr.once)] = lr.chain[Len(lr.chain)]

\* The input's last element closes a loop and the input holds an empty code of
\* its own: the result starts with the input's empty element and ends with the
\* input's last element.
C30_Witness ==
    /\ LoopsRemoved
    /\ Len(lr.chain) = MaxChainLen
    /\ Len(lr.once) = 3
    /\ lr.once[1].code_info.id > 0
    /\ lr.once[3] = lr.chain[Len(lr.chain)]
    /\ \E j \in 1..(Len(lr.chain) - 1) : lr.chain[j].code.anon = lr.once[3].code.anon

(* ---- routing decision (SpecRoute) ---- *)

Routed == rt.next \notin {"idle", "asked"}

\* C9: find_next_vertex returns the goal when there is no anchor, or when
\* d(learner->goal) <= 0.2 * (d(empty->learner) + d(learner->goal)), or when
\* d(learner->anchor) / d(learner->goal) > 2, or (V2) when the rate rule fires;
\* in every other case it returns the anchor.
C9_RoutingDecision ==
    Routed =>
        LET most_done == 5 * rt.user_to_goal <= rt.empty_to_user + rt.user_to_goal
            too_far == rt.user_to_goal # 0 /\ rt.user_to_graph_vertex > 2 * rt.user_to_goal
            rate_rule == rt.version = 2 /\ rt.user_rate > 0 /\ rt.graph_vertex_rate = 0
        IN rt.next = IF ~rt.has_graph_vertex \/ most_done \/ too_far \/ rate_rule
                     THEN "goal" ELSE "anchor"

\* A learner who has done most of the path is sent to the goal although an
\* anchor at distance 1 exists.
C9_Witness ==
    /\ Routed
    /\ rt.has_graph_vertex
    /\ rt.user_to_graph_vertex = 1
    /\ rt.user_to_goal = 1
    /\ rt.empty_to_user = 4
    /\ rt.next = "goal"

\* C11: PathFinderV2.find_next_vertex never returns a graph anchor whose rate
\* is strictly lower than the learner vertex's rate: it returns the goal.
C11_NoRegressionV2 ==
    (Routed /\ rt.version = 2 /\ rt.has_graph_vertex /\ rt.graph_vertex_rate < rt.user_rate)
        => rt.next = "goal"

\* C28: for all non-negative distances and the three path finders, the
\* routing decision never divides by a distance learner -> goal of 0: the
\* most-of-path-done test has returned before.
C28_NoDivisionByZero == Routed => rt.next # "ZeroDivisionError"

\* The legacy path finder routed a learner at distance 0 of the goal,
\* with an anchor, to the goal.
C28_Witness ==
    /\ Routed
    /\ rt.has_graph_vertex
    /\ rt.user_to_goal = 0
    /\ rt.empty_to_user > 0
    /\ rt.user_to_graph_vertex > 0
    /\ rt.version = 0
    /\ rt.next = "goal"

(* ---- the graph (Spec, SpecConstruct) ---- *)

\* Vertices a path of one or more child edges leads to from the set given.
RECURSIVE ReachFrom(_, _)
ReachFrom(frontier, seen) ==
    LET next == UNION {SeqToSet(vertices[v].children) : v \in frontier} \ seen
    IN IF next = {} THEN seen ELSE ReachFrom(next, seen \cup next)

Reach(v) == ReachFrom({v}, {})

Inner == InnerIds(vertices)

FullSolutionExists == \E v \in Inner : vertices[v].rate = FULL_SOLUTION

\* The vertex an element of the last operation's chain was merged into holds
\* the element's CodeInfo in the variant with the element's tree.
Attached(e, v) ==
    /\ v \in Inner
    /\ vertices[v].canon = CanonOf(e.code.anon)
    /\ \E i \in 1..Len(vertices[v].anon_trees) :
          /\ vertices[v].anon_trees[i].tree = e.code.anon
          /\ InRange(vertices[v].anon_trees[i].code_info_list, e.code_info)

C2_Acyclic ==
    /\ \A v \in Inner : v \notin Reach(v)
    /\ Parents(vertices, START) = {}
    /\ vertices[END].children = <<>>

C4_ChainLinked ==
    /\ \A v \in VertexIds(vertices) : ~InRange(vertices[v].children, v)
    /\ (ret.op = "add_code_info_chain" /\ ret.error = "") =>
           \A i \in 1..(Len(ret.chain) - 1) :
               LET p == find_vertex(vertices, CanonOf(ret.chain[i].code.anon))
                   c == find_vertex(vertices, CanonOf(ret.chain[i + 1].code.anon))
               IN /\ p # NoVertex /\ c # NoVertex
                  /\ p = ret.visited[i] /\ c = ret.visited[i + 1]
                  /\ p # c => InRange(vertices[p].children, c)

\* A chain with two consecutive elements of one vertex and a third of another.
C4_Witness ==
    /\ ret.op = "add_code_info_chain"
    /\ Len(ret.visited) = 3
    /\ ret.visited[1] = ret.visited[2]
    /\ ret.visited[2] # ret.visited[3]

C8_DistanceMatrix ==
    /\ Len(dist) = Len(vertices) - 2
    /\ \A i \in 1..Len(dist) :
          /\ Len(dist[i]) = Len(dist)
          /\ \A j \in 1..Len(dist) :
                LET src == vertices[i + 2]
                    dst == vertices[j + 2]
                    canon_dist == CanonDist(tool, src.canon, dst.canon)
                    anon_dists == {AnonDist(tool, a, b) :
                                      a \in VariantTrees(src), b \in VariantTrees(dst)}
                IN /\ \A x \in anon_dists \cup {canon_dist} : dist[i][j] <= x
                   /\ dist[i][j] \in anon_dists \cup {canon_dist}

\* Two vertices, one of them with two variants, a variant pair being closer
\* than the canonical trees.
C8_Witness ==
    /\ Len(dist) >= 2
    /\ \E i, j \in 1..Len(dist) :
          /\ i # j
          /\ Len(vertices[i + 2].anon_trees) >= 2
          /\ dist[i][j] < CanonDist(tool, vertices[i + 2].canon, vertices[j + 2].canon)

\* C10: a hint request on a graph whose end vertex has no parents fails with
\* NoGoalAvailable.
C10_NoGoalAvailable ==
    (ret.op = "get_hint" /\ Parents(vertices, END) = {}) => ret.error = "NoGoalAvailable"

(* ---- anchors of PathFinderV1 (SpecAsymmetric) ---- *)

\* The learner's vertex of the last hint request, as get_hint builds it.
LearnerVertex == Vertex(ret.chain[1].code, ret.chain[1].code_info)

\* C23: every anchor PathFinderV1 selects is no farther from the goal than the
\* learner is (distance anchor -> goal <= distance learner -> goal), is not the
\* start vertex and has another canonical tree than the learner's code.
C23_V1AnchorFilter ==
    (ret.op = "get_hint" /\ ret.anchor # NoVertex) =>
        /\ get_dist_between_vertices(dist, ret.anchor, ret.goal)
              <= get_dist(tool, LearnerVertex, vertices[ret.goal])
        /\ ret.anchor # START
        /\ ~are_asts_equal(vertices[ret.anchor].canon, LearnerVertex.canon)

\* The same with the learner's distance read as the code reads it, from the
\* goal to the learner.
V1AnchorFilterGoalToLearner ==
    (ret.op = "get_hint" /\ ret.anchor # NoVertex) =>
        /\ get_dist_between_vertices(dist, ret.anchor, ret.goal)
              <= get_dist(tool, vertices[ret.goal], LearnerVertex)
        /\ ret.anchor # START
        /\ ~are_asts_equal(vertices[ret.anchor].canon, LearnerVertex.canon)

(* ---- sentinels and hints (Spec) ---- *)

LearnerAtGoalVertex ==
    /\ ret.op = "get_hint"
    /\ \E id \in InnerIds(vertices) :
          /\ are_asts_equal(vertices[id].canon, LearnerVertex.canon)
          /\ InRange(vertices[id].children, END)

HintAtGoalVertexRaises == LearnerAtGoalVertex /\ ret.error # ""

(* ---- traversal (SpecTraversal) ---- *)

\* The children lists of the diamond, links made in the order of the test.
IsDiamond ==
    /\ vertices[START].children = <<TestVertex(1)>>
    /\ vertices[TestVertex(1)].children = <<TestVertex(2), TestVertex(3), TestVertex(4)>>
    /\ vertices[TestVertex(2)].children = <<TestVertex(5)>>
    /\ vertices[TestVertex(3)].children = <<TestVertex(5), TestVertex(6)>>
    /\ vertices[TestVertex(4)].children = <<TestVertex(6)>>
    /\ vertices[TestVertex(5)].children = <<>>
    /\ vertices[TestVertex(6)].children = <<END>>

\* Position of x in a list that holds it.
IndexOf(seq, x) == CHOOSE i \in 1..Len(seq) : seq[i] = x

\* Position in the traversal t of the first vertex that has t[k] as a child.
DiscoveredBy(t, k) ==
    LET from == {i \in 1..Len(t) : InRange(vertices[t[i]].children, t[k])}
    IN IF from = {} THEN 0 ELSE Min(from)

\* C12: get_traversal begins with start, never holds end, holds every vertex
\* reachable from start exactly once, and is in breadth-first order with the
\* children of a vertex in the order they were added: a vertex comes after the
\* first listed vertex it is a child of, vertices found from an earlier vertex
\* come first, and children of one vertex keep their order.  On the diamond of
\* test_bfs_traversal it is [start, v1, v2, v3, v4, v5, v6].
C12_BreadthFirstTraversal ==
    ret.op = "get_traversal" =>
        LET t == ret.visited IN
        /\ Len(t) >= 1 /\ t[1] = START
        /\ ~InRange(t, END)
        /\ \A i, j \in 1..Len(t) : i # j => t[i] # t[j]
        /\ SeqToSet(t) = {START} \cup (Reach(START) \ {END})
        /\ \A k \in 2..Len(t) : DiscoveredBy(t, k) \in 1..(k - 1)
        /\ \A k, l \in 2..Len(t) : k < l =>
              \/ DiscoveredBy(t, k) < DiscoveredBy(t, l)
              \/ /\ DiscoveredBy(t, k) = DiscoveredBy(t, l)
                 /\ IndexOf(vertices[t[DiscoveredBy(t, k)]].children, t[k])
                       < IndexOf(vertices[t[DiscoveredBy(t, k)]].children, t[l])
        /\ IsDiamond => t = <<START, TestVertex(1), TestVertex(2), TestVertex(3),
                              TestVertex(4), TestVertex(5), TestVertex(6)>>

\* The traversal of the finished diamond.
C12_Witness ==
    /\ ret.op = "get_traversal"
    /\ IsDiamond
    /\ Len(ret.visited) = 7

(* ---- goals and wiring (Spec) ---- *)

\* C13: every vertex with the full-solution rate is a parent of end, and every
\* parent of end has the full-solution rate.
C13_GoalsAreFullSolutions ==
    /\ \A v \in Inner : vertices[v].rate = FULL_SOLUTION <=> v \in Parents(vertices, END)
    /\ Parents(vertices, END) \subseteq Inner

\* A full solution handed in twice next to a code that is none.
C13_Witness ==
    /\ \E v \in Inner :
          /\ vertices[v].rate = FULL_SOLUTION
          /\ Len(vertices[v].anon_trees) = 2
          /\ v \in Parents(vertices, END)
    /\ \E v \in Inner : vertices[v].rate # FULL_SOLUTION /\ v \notin Parents(vertices, END)

\* The step is a find_or_create_vertex call that returned, for a code no vertex
\* of the graph had the canonical tree of.
MissStep ==
    /\ ret'.op = "find_or_create_vertex"
    /\ ret'.error = ""
    /\ find_vertex(vertices, CanonOf(ret'.chain[1].code.anon)) = NoVertex

ChainStep == ret'.op = "add_code_info_chain" /\ ret'.error = ""

\* C15: after add_code_info_chain the children of start are the previous
\* children plus the vertex of the chain's first element, no vertex created for
\* a later element is a child of start, start never has a parent and end never
\* has a child.
C15_OnlyFirstVertexAttachedToStart ==
    [][/\ ChainStep =>
             LET first == ret'.visited[1]
                 old == vertices[START].children
                 new == vertices'[START].children
             IN /\ new = IF InRange(old, first) THEN old ELSE Append(old, first)
                /\ \A v \in VertexIds(vertices') \ VertexIds(vertices) :
                      v # first => ~InRange(new, v)
       /\ Parents(vertices', START) = {}
       /\ vertices'[END].children = <<>>]_vars

\* A second chain: its first vertex joins the child start had, and the vertex
\* created for its second element stays off start.
C15_Witness ==
    /\ ret.op = "add_code_info_chain"
    /\ Len(ret.visited) = 2
    /\ ret.visited[2] = Len(vertices)
    /\ Len(vertices[START].children) = 2
    /\ vertices[START].children[2] = ret.visited[1]
    /\ ~InRange(vertices[START].children, ret.visited[2])

\* C16: find_or_create_vertex with an absent code fails with ValueError and
\* leaves the vertices, their edges and code-info lists, and the distance
\* matrix as they were.
C16_NoneCodeRaisesValueError ==
    [][(ret'.op = "find_or_create_vertex" /\ ret'.chain[1].code = NoCode) =>
          /\ ret'.error = "ValueError"
          /\ ret'.vertex = NoVertex
          /\ vertices' = vertices
          /\ dist' = dist]_vars

\* The call failed on a graph that holds linked vertices.
C16_Witness ==
    /\ ret.op = "find_or_create_vertex"
    /\ ret.chain[1].code = NoCode
    /\ ret.error = "ValueError"
    /\ Len(vertices) >= 4
    /\ vertices[START].children # <<>>

(* ---- variants of a SerializedCode (SpecVariants) ---- *)

\* The step is an add_anon_tree call.
AddStep == ret'.op = "add_anon_tree"

\* Indexes of the variants of the SerializedCode, before the step, whose tree is
\* AST-equal to the tree given.
EqualVariants ==
    {i \in 1..Len(vertices[HOLDER].anon_trees) :
        are_asts_equal(vertices[HOLDER].anon_trees[i].tree, ret'.chain[1].code.anon)}

\* C17: no two variants of a SerializedCode are AST-equal; add_anon_tree with a
\* tree AST-equal to a variant appends the CodeInfo to that variant, adds no
\* variant and returns None, whatever the numbers of nodes say.
C17_VariantsDeduplicated ==
    [][AddStep =>
          LET old == vertices[HOLDER].anon_trees
              new == vertices'[HOLDER].anon_trees
          IN /\ \A i, j \in 1..Len(new) :
                    i # j => ~are_asts_equal(new[i].tree, new[j].tree)
             /\ (ret'.error = "" /\ EqualVariants # {}) =>
                    /\ Len(new) = Len(old)
                    /\ ret'.file = "None"
                    /\ \A i \in 1..Len(old) :
                          new[i] = IF i \in EqualVariants
                                   THEN [old[i] EXCEPT !.code_info_list =
                                            Append(@, ret'.chain[1].code_info)]
                                   ELSE old[i]]_vars

\* A call whose tree is AST-equal to the second variant was merged into it.
C17_Witness ==
    /\ ret.op = "add_anon_tree"
    /\ ret.error = ""
    /\ ret.file = "None"
    /\ Len(vertices[HOLDER].anon_trees) = 2
    /\ vertices[HOLDER].anon_trees[2].tree = ret.chain[1].code.anon
    /\ Len(vertices[HOLDER].anon_trees[2].code_info_list) = 2

\* C18: add_anon_tree with a rate other than the established one raises before
\* any change: the variants and their code-info lists are as before; and all
\* variants of a SerializedCode have the rate of the SerializedCode.
C18_InconsistentRate ==
    [][AddStep =>
          /\ ret'.chain[1].code.rate # vertices[HOLDER].rate =>
                /\ ret'.error = "DifferentRates"
                /\ ret'.file = "None"
                /\ vertices' = vertices
          /\ \A i \in 1..Len(vertices'[HOLDER].anon_trees) :
                vertices'[HOLDER].anon_trees[i].rate = vertices'[HOLDER].rate]_vars

\* The call was refused on a SerializedCode of two variants.
C18_Witness ==
    /\ ret.op = "add_anon_tree"
    /\ ret.error = "DifferentRates"
    /\ ret.chain[1].code.rate # vertices[HOLDER].rate
    /\ Len(vertices[HOLDER].anon_trees) = 2

(* ---- ranking (SpecRank) ---- *)

\* Candidates i and j of the ranking have equal diffs_number and equal rate,
\* rollback and structure terms.
EqualTerms(i, j) ==
    LET a == mt.candidates[i]
        b == mt.candidates[j]
    IN /\ a.diffs_number = b.diffs_number
       /\ a.rate = b.rate
       /\ a.rollback.num * b.rollback.den = b.rollback.num * a.rollback.den
       /\ a.ast_structure = b.ast_structure

\* Position of candidate i in the sorted list.
PositionOf(i) == CHOOSE k \in 1..Len(mt.sorted) : mt.sorted[k].id = i

\* Candidate i is ranked before candidate j: nearer to the end the selection
\* takes its result from.
RankedBefore(i, j) ==
    IF mt.kind = "MeasuredVertex" THEN PositionOf(i) > PositionOf(j)
    ELSE PositionOf(i) < PositionOf(j)

\* C19: of two candidates with equal diffs_number and equal rate, rollback and
\* structure terms, the one with more unique users is ranked first, and the
\* other one is not the candidate the selection returns.
C19_TieBreakByPopulation ==
    mt.chosen =>
        \A i, j \in 1..Len(mt.candidates) :
            (EqualTerms(i, j) /\ mt.candidates[i].users_number > mt.candidates[j].users_number)
                => (RankedBefore(i, j) /\ mt.best # j)

\* The same for the legacy PathFinder alone.
LegacyTieBreak == mt.kind = "MeasuredVertex" => C19_TieBreakByPopulation

\* The same for two finite MeasuredTreeV7 candidates without medians.
V7TieBreakWithEqualMedians ==
    (mt.kind = "MeasuredTreeV7" /\ mt.chosen) =>
        \A i, j \in 1..Len(mt.candidates) :
            (/\ EqualTerms(i, j)
             /\ mt.candidates[i].diffs_number # math_inf
             /\ mt.candidates[i].age = mt.candidates[j].age
             /\ mt.candidates[i].exp = mt.candidates[j].exp
             /\ mt.candidates[i].users_number > mt.candidates[j].users_number)
                => (RankedBefore(i, j) /\ mt.best # j)

\* a < b is a strict order compatible with a total order on the candidates
\* measured: never a < a, never a < b together with b < a, and a < c whenever
\* a < b and b < c.
StrictOrder ==
    \A i, j, k \in 1..Len(mt.candidates) :
        LET a == mt.candidates[i]
            b == mt.candidates[j]
            c == mt.candidates[k]
        IN /\ ~lt(a, a)
           /\ lt(a, b) => ~lt(b, a)
           /\ (lt(a, b) /\ lt(b, c)) => lt(a, c)

\* C24: the comparison of measured candidates, MeasuredVertex.__lt__ and
\* MeasuredTreeV7.__lt__, is a strict order compatible with a total order.
C24_ComparisonIsStrictOrder == StrictOrder

\* The same for MeasuredTreeV7.__lt__ alone.
V7ComparisonIsStrictOrder == mt.kind = "MeasuredTreeV7" => StrictOrder

\* Candidate j is strictly better than candidate i: a lower distance for the
\* legacy PathFinder, a lower weighted sum for measured trees.
StrictlyBetter(j, i) ==
    IF mt.kind = "MeasuredVertex"
    THEN mt.candidates[j].diffs_number < mt.candidates[i].diffs_number
    ELSE MeasuredTreeV7_lt(mt.candidates[j], mt.candidates[i])

\* C25: the selection returns None exactly for an empty candidate list, and
\* otherwise a candidate that no other candidate of the list is strictly
\* better than.
C25_BestCandidateIsMinimal ==
    mt.chosen =>
        /\ mt.best = 0 <=> Len(mt.candidates) = 0
        /\ mt.best # 0 =>
              /\ mt.best \in 1..Len(mt.candidates)
              /\ \A j \in 1..Len(mt.candidates) : ~StrictlyBetter(j, mt.best)

\* The same for the selection that takes the first of the sorted candidates.
FirstOfSortedIsMinimal == mt.kind # "MeasuredVertex" => C25_BestCandidateIsMinimal

\* C26: a MeasuredTreeV7 candidate whose tree is AST-equal to the learner's, or
\* whose edit distance is 0, has diffs_number = +infinity and rollback
\* probability 0, and the sorted list holds no such candidate before a
\* candidate with a finite diffs_number; the selection returns it only when
\* every candidate is infinite.
C26_InfiniteDiffsNeverPreferred ==
    mt.kind = "MeasuredTreeV7" =>
        /\ \A i \in 1..Len(mt.candidates) :
              LET m == mt.candidates[i] IN
              (are_asts_equal(mt.user_tree.tree, m.tree) \/ m.diffs = 0)
                  => (m.diffs_number = math_inf /\ m.rollback.num = 0)
        /\ mt.chosen =>
              \A i, j \in 1..Len(mt.candidates) :
                  (/\ mt.candidates[i].diffs_number = math_inf
                   /\ mt.candidates[j].diffs_number # math_inf)
                      => (PositionOf(j) < PositionOf(i) /\ mt.best # i)

\* A candidate with an edit distance of 0 was measured first and a finite one
\* after it; the finite one was chosen.
C26_Witness ==
    /\ mt.kind = "MeasuredTreeV7"
    /\ mt.chosen
    /\ Len(mt.candidates) = 2
    /\ mt.candidates[1].diffs = 0
    /\ ~are_asts_equal(mt.user_tree.tree, mt.candidates[1].tree)
    /\ mt.candidates[1].diffs_number = math_inf
    /\ mt.candidates[2].diffs_number # math_inf
    /\ mt.candidates[1].users_number > mt.candidates[2].users_number
    /\ mt.best = 2

(* ---- interleaved requests (SpecConcurrent) ---- *)

\* C20: whatever the interleaving of find_or_create_vertex and hint requests,
\* the graph never holds two vertices with AST-equal canonical trees.
C20_AtomicVertexCreation ==
    \A i, j \in InnerIds(vertices) :
        i # j => ~are_asts_equal(vertices[i].canon, vertices[j].canon)

\* Hint requests alone, in any number and order, add no vertex to the graph.
HintAddsNoVertex == [][ret'.op = "get_hint" => vertices' = vertices]_vars

(* ---- medians (SpecMedians) ---- *)

\* The users with an event in the tree's list whose attribute is set.
ValidUsers(attr, default_value) ==
    {u \in Users : /\ \E i \in DOMAIN at.code_info_list : at.code_info_list[i] = u
                   /\ at.profiles[u][attr] # default_value}

\* m is the median of the attribute over the users V, each user taken once: the
\* middle value, or the mean of the two middle values.
IsMedianOf(m, V, attr) ==
    LET lower == {u \in V : at.profiles[u][attr] < m}
        upper == {u \in V : at.profiles[u][attr] > m}
    IN IF \E u \in V : at.profiles[u][attr] = m
       THEN /\ 2 * Cardinality(lower) < Cardinality(V)
            /\ 2 * Cardinality(upper) < Cardinality(V)
       ELSE /\ Cardinality(lower) = Cardinality(upper)
            /\ \E a \in lower, b \in upper :
                  /\ \A u \in lower : at.profiles[u][attr] <= at.profiles[a][attr]
                  /\ \A u \in upper : at.profiles[u][attr] >= at.profiles[b][attr]
                  /\ 2 * m = at.profiles[a][attr] + at.profiles[b][attr]

MedianAsClaimed(m, attr, default_value) ==
    IF ValidUsers(attr, default_value) = {}
    THEN m = EMPTY_MEDIAN /\ m # 0 /\ m # None
    ELSE IsMedianOf(m, ValidUsers(attr, default_value), attr)

\* C27: find_medians stores, for age and for experience, the median over the
\* tree's users, each taken once and those with the unset default left out, and
\* EMPTY_MEDIAN when no user is left; a getter raises exactly when find_medians
\* has not run.
C27_Medians ==
    /\ at.op = "find_medians" =>
          /\ MedianAsClaimed(at.age_median, "age", DEFAULT_VALUE_AGE)
          /\ MedianAsClaimed(at.experience_median, "experience", DEFAULT_VALUE_INT_EXPERIENCE)
    /\ at.op \in {"age_median", "experience_median"} => (at.read.raised <=> ~at.found)

\* A user with two events and a user with one, of age 20 and 30 and without
\* experience; the age median read after find_medians is 25.
C27_Witness ==
    /\ at.op = "age_median"
    /\ at.found
    /\ at.code_info_list = <<1, 1, 2>>
    /\ at.profiles[1].age = 20
    /\ at.profiles[2].age = 30
    /\ at.profiles[1].experience = DEFAULT_VALUE_INT_EXPERIENCE
    /\ at.profiles[2].experience = DEFAULT_VALUE_INT_EXPERIENCE
    /\ at.read = [raised |-> FALSE, value |-> 25]
    /\ at.experience_median = EMPTY_MEDIAN

\* A median read before find_medians raised.
ReadBeforeFindMediansRaises ==
    /\ at.op = "experience_median"
    /\ ~at.found
    /\ at.read.raised

(* ---- start indices (SpecSplitting) ---- *)

\* The positions, in the frame given, of the rows that start a maximal run of
\* rows with the task.
RunStarts ==
    {i \in DOMAIN df.rows : /\ df.rows[i].chosenTask = df.task
                            /\ (i = 1 \/ df.rows[i - 1].chosenTask # df.task)}

\* C21: find_task_start_indices returns, ascending, exactly the labels of the
\* rows that start a maximal run of rows with the task, the empty list when no
\* row has the task, and the labels are those the rows had before cropping.
C21_TaskStartIndices ==
    df.done =>
        /\ \A i, j \in DOMAIN df.indices : i < j => df.indices[i] < df.indices[j]
        /\ {df.indices[k] : k \in DOMAIN df.indices} = {df.rows[i].index : i \in RunStarts}
        /\ (\A i \in DOMAIN df.rows : df.rows[i].chosenTask # df.task) => df.indices = <<>>
        /\ \A k \in DOMAIN df.indices : df.source[df.indices[k] + 1] = df.task
        /\ \A i \in DOMAIN df.rows : df.source[df.rows[i].index + 1] = df.rows[i].chosenTask

\* The first row was cropped; the rows left start two runs of pies, at the
\* labels 1 and 3.
C21_Witness ==
    /\ df.done
    /\ df.task = PIES
    /\ Len(df.rows) = 3
    /\ df.rows[1].index = 1
    /\ df.source = <<PIES, PIES, ZERO, PIES>>
    /\ df.indices = <<1, 3>>

\* No row of the frame has the task and the empty list is returned.
NoRowOfTheTask ==
    /\ df.done
    /\ df.rows # <<>>
    /\ df.indices = <<>>

=============================================================================
